---- MODULE Spec2Model ----
(***************************************************************************)
(* kubectl-fluid-inspect: the diagnose pipeline of pkg/diagnose and the    *)
(* gateway wrappers of pkg/k8s it calls.                                    *)
(*                                                                         *)
(* One Diagnose run is a sequential program; pc is its position.  Every    *)
(* gateway call is one action whose response is drawn from a small set.    *)
(* Texts (messages, error texts, YAML lines, log lines) are sequences of   *)
(* tokens; strings.Contains is token containment.  An optional pointer is  *)
(* a sequence of length 0 (nil) or 1.                                      *)
(***************************************************************************)
EXTENDS Integers, Sequences, FiniteSets, TLC

(* ---------------------------- bounds ----------------------------------- *)
\* largest replica / scheduled count a workload object reports
MaxReplicas == 1
\* most pods a label-selected pod list of one workload group returns
MaxPods == 3
\* most events one event-list call returns
MaxEventsPerCall == 2
\* most events collected over the whole event stage
MaxEvents == 3
\* most pods the release-label pod list of the event stage returns
MaxEventPods == 1
\* largest event timestamp (seconds)
MaxTime == 2

(* ------------------------ program constants ---------------------------- *)
defaultTailLines == 100
maxLogsPerGroup == 2
restartThreshold == 3

Nil == <<>>
NoErr == <<>>
Some(x) == <<x>>

\* the part of the cluster whose responses a run explores in depth; the
\* other gateway calls answer from their smallest meaningful sets
\* "failures" lets every call of stages 2-4 fail hard in one run
Focuses == {"snapshot", "events", "master", "worker", "fuse", "pvc",
            "failures"}

\* whether the gateway call of a part may fail hard in a run of focus f
MayFail(f, part) == f = part \/ f = "failures"

(* ------------------------------ texts ---------------------------------- *)
\* strings.Contains(text, token)
Contains(text, tok) == \E k \in 1..Len(text) : text[k] = tok

\* strings.Contains(line, "phase:") on a tokenised YAML line
ContainsPhaseKey(line) ==
    \E k \in 1..(Len(line) - 1) : line[k] = "phase" /\ line[k + 1] = ":"

\* index of the first ":" of a line, 0 when there is none
RECURSIVE FirstColon(_, _)
FirstColon(line, k) ==
    IF k > Len(line) THEN 0
    ELSE IF line[k] = ":" THEN k ELSE FirstColon(line, k + 1)

\* strings.TrimSpace(strings.SplitN(line, ":", 2)[1])
AfterFirstColon(line) == SubSeq(line, FirstColon(line, 1) + 1, Len(line))

RECURSIVE extractPhaseFrom(_, _)
extractPhaseFrom(lines, k) ==
    IF k > Len(lines) THEN <<"Unknown">>
    ELSE IF ContainsPhaseKey(lines[k]) /\ FirstColon(lines[k], 1) > 0
         THEN AfterFirstColon(lines[k])
         ELSE extractPhaseFrom(lines, k + 1)

extractPhaseFromYAML(yamlStr) == extractPhaseFrom(yamlStr, 1)

(* --------------------------- the Dataset ------------------------------- *)
VolatileMetadata == {"managedFields", "resourceVersion", "uid", "generation",
                     "creationTimestamp"}

\* a Dataset object as the gateway returns it: status.phase (<<>> absent),
\* the message of a status condition (<<>> none) and volatile metadata
DatasetObjects(f) ==
    [metadata : {{"name", "namespace"} \cup VolatileMetadata},
     message : IF f = "snapshot"
               THEN {<<>>, <<"The", "ddc", "runtime", "is", "ready.">>}
               ELSE {<<>>},
     phase : IF f = "snapshot"
             THEN {<<"Bound">>, <<"Pending">>, <<"Failed">>, <<"NotBound">>,
                   <<>>}
             ELSE {<<"Bound">>}]

cleanCRForDiagnosis(obj) ==
    [obj EXCEPT !.metadata = @ \ VolatileMetadata]

\* yaml.Marshal of a cleaned object: keys in alphabetical order, so the
\* conditions of status precede status.phase
MarshalYAML(obj) ==
    (IF "name" \in obj.metadata THEN << <<"name", ":", "demo">> >> ELSE << >>)
    \o (IF "uid" \in obj.metadata THEN << <<"uid", ":", "u-1">> >> ELSE << >>)
    \o (IF obj.message # <<>> THEN << <<"message", ":">> \o obj.message >>
        ELSE << >>)
    \o (IF obj.phase # <<>> THEN << <<"phase", ":">> \o obj.phase >>
        ELSE << >>)

(* --------------------------- the runtime ------------------------------- *)
runtimeTypes == <<"alluxioruntimes", "jindoruntimes", "juicefsruntimes",
                  "efcruntimes", "thinruntimes", "vineyardruntimes",
                  "goosefsruntimes">>

\* the outcomes of one dynamic-client Get of a runtime kind
ProbeOutcomes(f, kind) ==
    IF MayFail(f, "snapshot") THEN {"found", "notfound", "error"}
    ELSE IF kind = "alluxioruntimes" THEN {"found"}
    ELSE {"notfound"}

(* ------------------------------ events --------------------------------- *)
\* the events the cluster may hold: a scheduling warning, an image-pull
\* warning and a normal event, at every timestamp
EventTemplates ==
    {[Type |-> "Warning", Reason |-> "FailedScheduling",
      Message |-> <<"0/3", "nodes", "available", "Insufficient", "memory">>,
      ObjectKind |-> "Pod"],
     [Type |-> "Warning", Reason |-> "Failed",
      Message |-> <<"Back-off", "pulling", "image", "ImagePullBackOff">>,
      ObjectKind |-> "Pod"],
     [Type |-> "Normal", Reason |-> "SuccessfulCreate",
      Message |-> <<"create", "Pod", "success">>,
      ObjectKind |-> "StatefulSet"]}

\* GetEventsForObject lines 43-53: the EventInfo built from a core event
EventInfo(t, ts) ==
    [Type |-> t.Type, Reason |-> t.Reason, Message |-> t.Message,
     LastTimestamp |-> ts, ObjectKind |-> t.ObjectKind]

EventUniverse(f) ==
    IF f = "events"
    THEN {EventInfo(t, ts) : t \in EventTemplates, ts \in 1..MaxTime}
    ELSE {EventInfo(t, 1) : t \in {u \in EventTemplates :
                                      u.Reason = "FailedScheduling"}}

SeqsUpTo(S, n) == UNION {[1..k -> S] : k \in 0..n}

\* what one event-list call returns: an error, or the listed events; idx 1
\* is the Dataset itself, 2..4 the -master, -worker and -fuse objects
EventLists(f, k) ==
    IF f = "events" THEN SeqsUpTo(EventUniverse(f), MaxEventsPerCall)
    ELSE IF f = "failures" /\ k = 1 THEN SeqsUpTo(EventUniverse(f), 1)
    ELSE {<<>>}

\* the release-labelled pods the event stage lists
ReleasePodLists(f) ==
    IF f = "events"
    THEN {[j \in 1..n |-> "pod"] : n \in 0..MaxEventPods}
    ELSE {<<>>}

\* sort.Slice with less = LastTimestamp.After: up to 12 elements the Go
\* runtime sorts by insertion, each element moving left while it is After
\* its left neighbour
\* variant: less = LastTimestamp.Before, which sorts ascending
RECURSIVE InsertEvent_Ascending(_, _)
InsertEvent_Ascending(s, e) ==
    IF s = <<>> THEN <<e>>
    ELSE IF e.LastTimestamp < s[Len(s)].LastTimestamp
         THEN Append(InsertEvent_Ascending(SubSeq(s, 1, Len(s) - 1), e),
                     s[Len(s)])
         ELSE Append(s, e)

RECURSIVE InsertEvent(_, _)
InsertEvent(s, e) ==
    IF s = <<>> THEN <<e>>
    ELSE IF e.LastTimestamp > s[Len(s)].LastTimestamp
         THEN Append(InsertEvent(SubSeq(s, 1, Len(s) - 1), e), s[Len(s)])
         ELSE Append(s, e)

RECURSIVE SortByLastTimestamp(_)
SortByLastTimestamp(s) ==
    IF s = <<>> THEN <<>>
    ELSE InsertEvent(SortByLastTimestamp(SubSeq(s, 1, Len(s) - 1)), s[Len(s)])

\* GetEventsForObject on a successful list: convert, then sort
GetEventsForObject(items) == SortByLastTimestamp(items)

\* the names GetAllRelatedEvents asks events for, before the pods
eventObjects == <<"dataset", "master", "worker", "fuse">>

\* the error GetAllRelatedEvents returns (events_logs.go:100)
GetAllRelatedEventsErr == NoErr

(* ------------------------ workload groups ------------------------------ *)
roles == <<"master", "worker", "fuse">>
groupField == <<"Master", "Workers", "Fuse">>
containerName == <<"alluxio-master", "alluxio-worker", "alluxio-fuse">>

\* a DaemonSet or StatefulSet as the gateway returns it; the ready replicas
\* of a StatefulSet may exceed the spec replicas while the set scales down
Workloads(f, role) ==
    IF role = "fuse"
    THEN IF f = role
         THEN UNION {{[name |-> role, desiredNumberScheduled |-> d,
                       numberReady |-> r, numberAvailable |-> r,
                       numberUnavailable |-> d - r] : r \in 0..d} :
                     d \in 0..MaxReplicas}
         ELSE {[name |-> role, desiredNumberScheduled |-> 1,
                numberReady |-> 1, numberAvailable |-> 1,
                numberUnavailable |-> 0]}
    ELSE IF f = role
         THEN {[name |-> role, replicas |-> d, readyReplicas |-> r,
                availableReplicas |-> r] :
                  d \in 0..MaxReplicas, r \in 0..MaxReplicas}
         ELSE {[name |-> role, replicas |-> 1, readyReplicas |-> 1,
                availableReplicas |-> 1]}

\* variant: a set with at least the desired replicas ready is healthy
StatefulSetStatus_AtLeast(sts) ==
    [Name |-> sts.name, Kind |-> "StatefulSet",
     Desired |-> sts.replicas,
     Ready |-> sts.readyReplicas,
     Available |-> sts.availableReplicas,
     Unavailable |-> sts.replicas - sts.readyReplicas,
     Healthy |-> (sts.readyReplicas >= sts.replicas),
     Pods |-> <<>>, FailingPods |-> <<>>]

\* collectResourceStatus lines 158-166 and 173-181
StatefulSetStatus(sts) ==
    [Name |-> sts.name, Kind |-> "StatefulSet",
     Desired |-> sts.replicas,
     Ready |-> sts.readyReplicas,
     Available |-> sts.availableReplicas,
     Unavailable |-> sts.replicas - sts.readyReplicas,
     Healthy |-> (sts.readyReplicas = sts.replicas),
     Pods |-> <<>>, FailingPods |-> <<>>]

\* collectResourceStatus lines 188-196
DaemonSetStatus(ds) ==
    [Name |-> ds.name, Kind |-> "DaemonSet",
     Desired |-> ds.desiredNumberScheduled,
     Ready |-> ds.numberReady,
     Available |-> ds.numberAvailable,
     Unavailable |-> ds.numberUnavailable,
     Healthy |-> (ds.numberReady = ds.desiredNumberScheduled),
     Pods |-> <<>>, FailingPods |-> <<>>]

PodGroupStatus(role, obj) ==
    IF role = "fuse" THEN DaemonSetStatus(obj) ELSE StatefulSetStatus(obj)

PodNames(role) ==
    [j \in 1..(MaxPods + 1) |->
        IF role = "master" THEN <<"master", j>>
        ELSE IF role = "worker" THEN <<"worker", j>> ELSE <<"fuse", j>>]

\* a pod as the gateway returns it: the status of its PodReady condition
\* and the restart count of its first container
GatewayPods(f, role) ==
    [ready : IF f = role THEN {"True", "False"} ELSE {"True"},
     restartCount : IF f = role THEN {0, 5} ELSE {0}]

\* the pod lists a label selector may return, pods named by position
PodLists(f, role) ==
    IF f = role
    THEN UNION {[1..n -> GatewayPods(f, role)] : n \in 0..MaxPods}
    ELSE [1..1 -> GatewayPods(f, role)]

isPodReady(pod) == pod.ready = "True"

extractPodStatus(name, pod) ==
    [Name |-> name, Ready |-> isPodReady(pod),
     RestartCount |-> pod.restartCount]

\* collectPodStatus lines 253-260: bucket the listed pods by readiness
RECURSIVE BucketPods(_, _, _, _)
BucketPods(group, role, pods, k) ==
    IF k > Len(pods) THEN group
    ELSE LET status == extractPodStatus(PodNames(role)[k], pods[k])
         IN BucketPods(
              IF status.Ready
              THEN [group EXCEPT !.Pods = Append(@, status)]
              ELSE [group EXCEPT !.FailingPods = Append(@, status)],
              role, pods, k + 1)

(* --------------------------- claim / volume ---------------------------- *)
Claims(f) ==
    IF f = "pvc"
    THEN {[name |-> "demo", phase |-> "Bound", volumeName |-> "pv-demo"],
          [name |-> "demo", phase |-> "Pending", volumeName |-> ""],
          [name |-> "demo", phase |-> "Lost", volumeName |-> "pv-demo"]}
    ELSE {[name |-> "demo", phase |-> "Bound", volumeName |-> "pv-demo"]}

\* the object GetPV hands back with an error: the generated client-go Get
\* allocates the result before the request and returns it unchanged
\* together with the error, so the caller sees a non-nil empty object
EmptyVolume == [name |-> "", phase |-> ""]

PVCDiagnostic(pvc) ==
    [Name |-> pvc.name, Phase |-> pvc.phase, VolumeName |-> pvc.volumeName]

PVDiagnostic(pv) == [Name |-> pv.name, Phase |-> pv.phase]

\* the error collectResourceStatus returns (diagnoser.go:242)
collectResourceStatusErr == NoErr

(* ------------------------------- logs ---------------------------------- *)
\* a log text is its lines in order; the empty text is one empty line
EmptyText == << <<>> >>

LogTexts(f, role) ==
    IF f = role
    THEN {EmptyText,
          << <<"INFO", "started">>, <<"db", "password", "=", "x">> >>}
    ELSE {<< <<"INFO", "started">> >>}

\* GetPodLogs fails opening the stream or reading it
LogErrors(f, role) ==
    IF f = role
    THEN {<<"failed to get log stream">>, <<"failed to read logs">>}
    ELSE IF f = "failures" THEN {<<"failed to get log stream">>}
    ELSE {}

LogEntry(pod, container, logs, err) ==
    [PodName |-> pod, ContainerName |-> container, Logs |-> logs,
     TailLines |-> defaultTailLines,
     Truncated |-> (logs # EmptyText), Error |-> err]

\* collectLogs lines 309-323: the master entry
MasterLogEntry(pod, logs, err) ==
    IF err # NoErr
    THEN LogEntry(pod, "", EmptyText, err)
    ELSE LogEntry(pod, containerName[1], logs, NoErr)

\* collectLogs lines 332-342, 350-360, 372-382: a worker or fuse entry
GroupLogEntry(pod, container, logs, err) ==
    IF err # NoErr
    THEN LogEntry(pod, container, EmptyText, err)
    ELSE LogEntry(pod, container, logs, NoErr)

\* the error collectLogs returns (diagnoser.go:387)
collectLogsErr == NoErr

\* the fetches of collectLogs in order, and whether each is made
LogSteps == <<"LogMaster", "LogWorkerReady", "LogWorkerFailing", "LogFuse">>

LogApplies(res, step) ==
    LET r == res.Resources IN
    CASE step = "LogMaster" ->
           r.Master # Nil /\ Len(r.Master[1].Pods) > 0
      [] step = "LogWorkerReady" ->
           r.Workers # Nil /\ Len(r.Workers[1].Pods) > 0
      [] step = "LogWorkerFailing" ->
           r.Workers # Nil /\ Len(r.Workers[1].FailingPods) > 0
      [] step = "LogFuse" ->
           r.Fuse # Nil /\ Len(r.Fuse[1].FailingPods) > 0

RECURSIVE NextLogStep(_, _)
NextLogStep(res, k) ==
    IF k > Len(LogSteps) THEN "LogsReturn"
    ELSE IF LogApplies(res, LogSteps[k]) THEN LogSteps[k]
    ELSE NextLogStep(res, k + 1)

(* ------------------------- failure hints ------------------------------- *)
Hint(sev, comp, issue, suggestion, evidence) ==
    [Severity |-> sev, Component |-> comp, Issue |-> issue,
     Suggestion |-> suggestion, Evidence |-> evidence]

\* Diagnose: a stage that returned an error leaves a warning hint
StageFailure(res, err, comp, issue, suggestion) ==
    IF err # NoErr
    THEN [res EXCEPT !.FailureHints =
             Append(@, Hint("warning", comp, <<issue>>, suggestion, err))]
    ELSE res

(* ----------------------------- analysis -------------------------------- *)
\* analyzeAndGenerateHints lines 393-408: the Dataset phase rule
DatasetPhaseHints(res) ==
    LET datasetPhase == extractPhaseFromYAML(res.DatasetYAML) IN
    IF datasetPhase = <<"Pending">>
    THEN << Hint("warning", "dataset", <<"Dataset is in Pending phase">>,
                 "Check if a matching Runtime CR exists and is healthy",
                 <<>>) >>
    ELSE IF datasetPhase = <<"Failed">>
    THEN << Hint("critical", "dataset", <<"Dataset is in Failed phase">>,
                 "Check events and conditions for failure reason", <<>>) >>
    ELSE << >>

\* variant: an unhealthy worker group is critical too
groupSeverity_WorkerCritical == <<"critical", "critical", "warning">>

groupSeverity == <<"critical", "warning", "warning">>
groupIssue == <<"Master not healthy", "Workers not healthy",
                "Fuse not healthy">>
groupSuggestion ==
    <<"Check master pod logs and events for errors",
      "Check worker pod logs and node resources",
      "Check fuse pod logs and node selectors/tolerations">>

\* variant: an unhealthy fuse group raises no finding
GroupHints_NoFuse(res, k) ==
    LET g == res.Resources[groupField[k]] IN
    IF g # Nil /\ ~g[1].Healthy /\ roles[k] # "fuse"
    THEN << Hint(groupSeverity[k], roles[k],
                 <<groupIssue[k], g[1].Ready, g[1].Desired>>,
                 groupSuggestion[k], <<>>) >>
    ELSE << >>

\* analyzeAndGenerateHints lines 410-438: the rule of one workload group
GroupHints(res, k) ==
    LET g == res.Resources[groupField[k]] IN
    IF g # Nil /\ ~g[1].Healthy
    THEN << Hint(groupSeverity[k], roles[k],
                 <<groupIssue[k], g[1].Ready, g[1].Desired>>,
                 groupSuggestion[k], <<>>) >>
    ELSE << >>

\* variant: an unbound claim is only a warning
PVCHints_Warning(res) ==
    LET c == res.Resources.PVC IN
    IF c # Nil /\ c[1].Phase # "Bound"
    THEN << Hint("warning", "pvc", <<"PVC is not bound", c[1].Phase>>,
                 "Check if the Dataset is bound to a Runtime", <<>>) >>
    ELSE << >>

\* analyzeAndGenerateHints lines 440-448: the claim rule
PVCHints(res) ==
    LET c == res.Resources.PVC IN
    IF c # Nil /\ c[1].Phase # "Bound"
    THEN << Hint("critical", "pvc", <<"PVC is not bound", c[1].Phase>>,
                 "Check if the Dataset is bound to a Runtime", <<>>) >>
    ELSE << >>

\* variant: the signatures are matched on events of every type
EventHints_AnyType(event) ==
    (IF Contains(event.Message, "ImagePullBackOff")
        \/ Contains(event.Message, "ErrImagePull")
     THEN << Hint("critical", event.ObjectKind,
                  <<"Image pull failure detected">>,
                  "Check image name, tag, and registry credentials",
                  event.Message) >>
     ELSE << >>)
    \o (IF Contains(event.Message, "Insufficient")
        THEN << Hint("warning", event.ObjectKind,
                     <<"Resource insufficiency detected">>,
                     "Check node resources and pod resource requests",
                     event.Message) >>
        ELSE << >>)
    \o (IF Contains(event.Message, "FailedMount")
           \/ Contains(event.Message, "MountVolume")
        THEN << Hint("critical", event.ObjectKind,
                     <<"Volume mount failure detected">>,
                     "Check PVC binding and CSI driver status",
                     event.Message) >>
        ELSE << >>)

\* variant: the signatures are an else-if chain, the first match wins
EventHints_FirstMatch(event) ==
    IF event.Type # "Warning" THEN << >>
    ELSE IF Contains(event.Message, "ImagePullBackOff")
            \/ Contains(event.Message, "ErrImagePull")
    THEN << Hint("critical", event.ObjectKind,
                 <<"Image pull failure detected">>,
                 "Check image name, tag, and registry credentials",
                 event.Message) >>
    ELSE IF Contains(event.Message, "Insufficient")
    THEN << Hint("warning", event.ObjectKind,
                 <<"Resource insufficiency detected">>,
                 "Check node resources and pod resource requests",
                 event.Message) >>
    ELSE IF Contains(event.Message, "FailedMount")
            \/ Contains(event.Message, "MountVolume")
    THEN << Hint("critical", event.ObjectKind,
                 <<"Volume mount failure detected">>,
                 "Check PVC binding and CSI driver status",
                 event.Message) >>
    ELSE << >>

\* analyzeAndGenerateHints lines 453-484: the signatures of one event
EventHints(event) ==
    IF event.Type = "Warning"
    THEN (IF Contains(event.Message, "ImagePullBackOff")
             \/ Contains(event.Message, "ErrImagePull")
          THEN << Hint("critical", event.ObjectKind,
                       <<"Image pull failure detected">>,
                       "Check image name, tag, and registry credentials",
                       event.Message) >>
          ELSE << >>)
         \o (IF Contains(event.Message, "Insufficient")
             THEN << Hint("warning", event.ObjectKind,
                          <<"Resource insufficiency detected">>,
                          "Check node resources and pod resource requests",
                          event.Message) >>
             ELSE << >>)
         \o (IF Contains(event.Message, "FailedMount")
                \/ Contains(event.Message, "MountVolume")
             THEN << Hint("critical", event.ObjectKind,
                          <<"Volume mount failure detected">>,
                          "Check PVC binding and CSI driver status",
                          event.Message) >>
             ELSE << >>)
    ELSE << >>

RECURSIVE AllEventHints(_, _)
AllEventHints(events, k) ==
    IF k > Len(events) THEN << >>
    ELSE EventHints(events[k]) \o AllEventHints(events, k + 1)

\* variant: a pod at the threshold is reported too
RECURSIVE checkRestartCounts_AtLeast(_, _, _)
checkRestartCounts_AtLeast(pods, component, k) ==
    IF k > Len(pods) THEN << >>
    ELSE (IF pods[k].RestartCount >= restartThreshold
          THEN << Hint("warning", component,
                       <<"High restart count", pods[k].RestartCount,
                         pods[k].Name>>,
                       "Check pod logs for crash reasons", <<>>) >>
          ELSE << >>)
         \o checkRestartCounts_AtLeast(pods, component, k + 1)

\* analyzeAndGenerateHints lines 488-499
RECURSIVE checkRestartCounts(_, _, _)
checkRestartCounts(pods, component, k) ==
    IF k > Len(pods) THEN << >>
    ELSE (IF pods[k].RestartCount > restartThreshold
          THEN << Hint("warning", component,
                       <<"High restart count", pods[k].RestartCount,
                         pods[k].Name>>,
                       "Check pod logs for crash reasons", <<>>) >>
          ELSE << >>)
         \o checkRestartCounts(pods, component, k + 1)

\* analyzeAndGenerateHints lines 501-512
RestartHints(res, k) ==
    LET g == res.Resources[groupField[k]] IN
    IF g # Nil
    THEN checkRestartCounts(g[1].Pods, roles[k], 1)
         \o checkRestartCounts(g[1].FailingPods, roles[k], 1)
    ELSE << >>

\* variant: the restart counts are checked before the events
analyzeAndGenerateHints_RestartsFirst(res) ==
    [res EXCEPT !.FailureHints =
        @ \o DatasetPhaseHints(res)
          \o GroupHints(res, 1) \o GroupHints(res, 2) \o GroupHints(res, 3)
          \o PVCHints(res)
          \o RestartHints(res, 1) \o RestartHints(res, 2)
          \o RestartHints(res, 3)
          \o AllEventHints(res.Events, 1)]

analyzeAndGenerateHints(res) ==
    [res EXCEPT !.FailureHints =
        @ \o DatasetPhaseHints(res)
          \o GroupHints(res, 1) \o GroupHints(res, 2) \o GroupHints(res, 3)
          \o PVCHints(res)
          \o AllEventHints(res.Events, 1)
          \o RestartHints(res, 1) \o RestartHints(res, 2)
          \o RestartHints(res, 3)]

HasSeverity(hints, sev) == \E k \in 1..Len(hints) : hints[k].Severity = sev

\* variant: the claim is left out of the resource test
allHealthy_GroupsOnly(res) ==
    \A k \in 1..Len(roles) :
      ~(res.Resources[groupField[k]] # Nil
        /\ ~res.Resources[groupField[k]][1].Healthy)

\* determineHealthStatus lines 536-548
allHealthy(res) ==
    /\ \A k \in 1..Len(roles) :
         ~(res.Resources[groupField[k]] # Nil
           /\ ~res.Resources[groupField[k]][1].Healthy)
    /\ ~(res.Resources.PVC # Nil /\ res.Resources.PVC[1].Phase # "Bound")

\* variant: the warning test comes first
determineHealthStatus_WarningFirst(res) ==
    IF HasSeverity(res.FailureHints, "warning") THEN "Degraded"
    ELSE IF HasSeverity(res.FailureHints, "critical") THEN "Unhealthy"
    ELSE IF allHealthy(res) THEN "Healthy"
    ELSE "Degraded"

determineHealthStatus(res) ==
    IF HasSeverity(res.FailureHints, "critical") THEN "Unhealthy"
    ELSE IF HasSeverity(res.FailureHints, "warning") THEN "Degraded"
    ELSE IF allHealthy(res) THEN "Healthy"
    ELSE "Degraded"

(* ------------------------------ state ---------------------------------- *)
VARIABLES
    focus,      \* which part of the cluster answers from its full set
    pc,         \* position of the run inside Diagnose
    idx,        \* index of the loop the run is in
    result,     \* the DiagnosticResult under construction
    allEvents,  \* GetAllRelatedEvents: the events merged so far
    podNames,   \* GetAllRelatedEvents: the release-labelled pods
    calls,      \* the gateway calls issued so far, in order
    hardFail,   \* stages in which a gateway call failed hard (not not-found)
    ret,        \* what Diagnose returned: result (nil or one) and error
    datasetGet, \* how the Dataset get answered: none, ok, notfound, error
    notFound,   \* the resources of stage 3 whose get answered not-found
    stages      \* the stages the run has completed, in order

vars == <<focus, pc, idx, result, allEvents, podNames, calls, hardFail, ret,
          datasetGet, notFound, stages>>

Call(stage, name) == [stage |-> stage, call |-> name]

\* a runtime probe of TryFindRuntime and whether its Get returned an object
Probe(kind, out) ==
    [stage |-> "snapshot", call |-> kind, found |-> (out = "found")]

EmptyResult ==
    [CollectedAt |-> 0, DatasetName |-> "demo", Namespace |-> "default",
     DatasetYAML |-> <<>>, RuntimeYAML |-> <<>>, RuntimeType |-> "",
     Events |-> <<>>,
     Resources |-> [Master |-> Nil, Workers |-> Nil, Fuse |-> Nil,
                    PVC |-> Nil, PV |-> Nil],
     Logs |-> [Master |-> Nil, Workers |-> <<>>, Fuse |-> <<>>],
     FailureHints |-> <<>>,
     HealthStatus |-> ""]

NotReturned == [returned |-> FALSE, result |-> Nil, err |-> NoErr]

Init ==
    /\ focus \in Focuses
    /\ pc = "GetDataset"
    /\ idx = 0
    /\ result = EmptyResult
    /\ allEvents = <<>>
    /\ podNames = <<>>
    /\ calls = <<>>
    /\ hardFail = {}
    /\ ret = NotReturned
    /\ datasetGet = "none"
    /\ notFound = {}
    /\ stages = <<>>

(* ------------------- stage 1: collectCRSnapshots ----------------------- *)
\* Diagnose wraps the error of collectCRSnapshots, which wraps GetDataset's
WrapSnapshotErr(err) ==
    <<"failed to collect CR snapshots", "failed to get dataset">> \o err

\* variant: the not-found error is dropped and the run goes on
GetDatasetNotFound_Continue ==
    /\ pc = "GetDataset"
    /\ calls' = Append(calls, Call("snapshot", "GetDataset"))
    /\ pc' = "TryFindRuntime"
    /\ idx' = 1
    /\ datasetGet' = "notfound"
    /\ UNCHANGED <<focus, result, allEvents, podNames, hardFail, ret,
                 notFound, stages>>

\* client.GetDataset answers not-found: Diagnose returns (nil, error)
GetDatasetNotFound ==
    /\ pc = "GetDataset"
    /\ calls' = Append(calls, Call("snapshot", "GetDataset"))
    /\ ret' = [returned |-> TRUE, result |-> Nil,
               err |-> WrapSnapshotErr(<<"dataset", "not found">>)]
    /\ pc' = "Done"
    /\ datasetGet' = "notfound"
    /\ UNCHANGED <<focus, idx, result, allEvents, podNames, hardFail,
                 notFound, stages>>

\* client.GetDataset fails otherwise: Diagnose returns (nil, error) as well
GetDatasetError ==
    /\ pc = "GetDataset"
    /\ calls' = Append(calls, Call("snapshot", "GetDataset"))
    /\ hardFail' = hardFail \cup {"snapshot"}
    /\ ret' = [returned |-> TRUE, result |-> Nil,
               err |-> WrapSnapshotErr(<<"failed to get dataset">>)]
    /\ pc' = "Done"
    /\ datasetGet' = "error"
    /\ UNCHANGED <<focus, idx, result, allEvents, podNames, notFound, stages>>

\* client.GetDataset succeeds: the cleaned object is marshalled
GetDatasetOk ==
    /\ pc = "GetDataset"
    /\ \E obj \in DatasetObjects(focus) :
         result' = [result EXCEPT
                      !.DatasetYAML = MarshalYAML(cleanCRForDiagnosis(obj))]
    /\ calls' = Append(calls, Call("snapshot", "GetDataset"))
    /\ pc' = "TryFindRuntime"
    /\ idx' = 1
    /\ datasetGet' = "ok"
    /\ UNCHANGED <<focus, allEvents, podNames, hardFail, ret, notFound,
                 stages>>

\* variant: a probe that fails other than by not-found ends the run with
\* its error
TryFindRuntime_Strict ==
    /\ pc = "TryFindRuntime"
    /\ idx <= Len(runtimeTypes)
    /\ \E out \in ProbeOutcomes(focus, runtimeTypes[idx]) :
         /\ calls' = Append(calls, Probe(runtimeTypes[idx], out))
         /\ hardFail' = IF out = "error" THEN hardFail \cup {"snapshot"}
                        ELSE hardFail
         /\ IF out = "found"
            THEN /\ result' = [result EXCEPT
                                 !.RuntimeType = runtimeTypes[idx],
                                 !.RuntimeYAML =
                                     << <<"kind", ":", runtimeTypes[idx]>> >>]
                 /\ pc' = "EvObject"
                 /\ idx' = 1
                 /\ ret' = ret
            ELSE IF out = "error"
            THEN /\ result' = result
                 /\ pc' = "Done"
                 /\ idx' = idx
                 /\ ret' = [returned |-> TRUE, result |-> Nil,
                            err |-> <<"failed to collect CR snapshots",
                                      "failed to find runtime">>]
            ELSE /\ result' = result
                 /\ pc' = IF idx = Len(runtimeTypes) THEN "EvObject"
                          ELSE "TryFindRuntime"
                 /\ idx' = IF idx = Len(runtimeTypes) THEN 1 ELSE idx + 1
                 /\ ret' = ret
    /\ stages' = IF pc' \in {"TryFindRuntime", "Done"} THEN stages
                 ELSE Append(stages, "snapshot")
    /\ UNCHANGED <<focus, allEvents, podNames, datasetGet, notFound>>

\* variant: a success does not end the loop, the last kind found wins
TryFindRuntime_LastWins ==
    /\ pc = "TryFindRuntime"
    /\ idx <= Len(runtimeTypes)
    /\ \E out \in ProbeOutcomes(focus, runtimeTypes[idx]) :
         /\ calls' = Append(calls, Probe(runtimeTypes[idx], out))
         /\ hardFail' = IF out = "error" THEN hardFail \cup {"snapshot"}
                        ELSE hardFail
         /\ result' = IF out = "found"
                      THEN [result EXCEPT
                              !.RuntimeType = runtimeTypes[idx],
                              !.RuntimeYAML =
                                  << <<"kind", ":", runtimeTypes[idx]>> >>]
                      ELSE result
         /\ pc' = IF idx = Len(runtimeTypes) THEN "EvObject"
                  ELSE "TryFindRuntime"
         /\ idx' = IF idx = Len(runtimeTypes) THEN 1 ELSE idx + 1
    /\ stages' = IF pc' = "TryFindRuntime" THEN stages
                 ELSE Append(stages, "snapshot")
    /\ UNCHANGED <<focus, allEvents, podNames, ret, datasetGet, notFound>>

\* one iteration of the probe loop of TryFindRuntime; a success ends the
\* loop, every failure continues, and the exhausted loop returns nil, "", nil
TryFindRuntime ==
    /\ pc = "TryFindRuntime"
    /\ idx <= Len(runtimeTypes)
    /\ \E out \in ProbeOutcomes(focus, runtimeTypes[idx]) :
         /\ calls' = Append(calls, Probe(runtimeTypes[idx], out))
         /\ hardFail' = IF out = "error" THEN hardFail \cup {"snapshot"}
                        ELSE hardFail
         /\ IF out = "found"
            THEN /\ result' = [result EXCEPT
                                 !.RuntimeType = runtimeTypes[idx],
                                 !.RuntimeYAML =
                                     << <<"kind", ":", runtimeTypes[idx]>> >>]
                 /\ pc' = "EvObject"
                 /\ idx' = 1
            ELSE /\ result' = result
                 /\ pc' = IF idx = Len(runtimeTypes) THEN "EvObject"
                          ELSE "TryFindRuntime"
                 /\ idx' = IF idx = Len(runtimeTypes) THEN 1 ELSE idx + 1
    /\ stages' = IF pc' = "TryFindRuntime" THEN stages
                 ELSE Append(stages, "snapshot")
    /\ UNCHANGED <<focus, allEvents, podNames, ret, datasetGet, notFound>>

(* ---------------------- stage 2: collectEvents ------------------------ *)
\* GetAllRelatedEvents: the event list of the Dataset and of the three
\* conventionally named objects; a failed list adds nothing
EventsForObject ==
    /\ pc = "EvObject"
    /\ idx <= Len(eventObjects)
    /\ calls' = Append(calls, Call("events", eventObjects[idx]))
    /\ \/ /\ MayFail(focus, "events")
          /\ hardFail' = hardFail \cup {"events"}
          /\ allEvents' = allEvents
       \/ /\ \E items \in EventLists(focus, idx) :
               /\ Len(allEvents) + Len(items) <= MaxEvents
               /\ allEvents' = allEvents \o GetEventsForObject(items)
          /\ hardFail' = hardFail
    /\ pc' = IF idx = Len(eventObjects) THEN "EvPodList" ELSE "EvObject"
    /\ idx' = IF idx = Len(eventObjects) THEN 0 ELSE idx + 1
    /\ UNCHANGED <<focus, result, podNames, ret, datasetGet, notFound,
                 stages>>

\* GetAllRelatedEvents: list the pods carrying the release label; a failed
\* list skips the per-pod events
ListReleasePods ==
    /\ pc = "EvPodList"
    /\ calls' = Append(calls, Call("events", "pods"))
    /\ \/ /\ MayFail(focus, "events")
          /\ hardFail' = hardFail \cup {"events"}
          /\ podNames' = <<>>
       \/ /\ podNames' \in ReleasePodLists(focus)
          /\ hardFail' = hardFail
    /\ pc' = IF podNames' = <<>> THEN "EvReturn" ELSE "EvPod"
    /\ idx' = IF podNames' = <<>> THEN 0 ELSE 1
    /\ UNCHANGED <<focus, result, allEvents, ret, datasetGet, notFound,
                 stages>>

\* GetAllRelatedEvents: the event list of one release-labelled pod
EventsForPod ==
    /\ pc = "EvPod"
    /\ idx <= Len(podNames)
    /\ calls' = Append(calls, Call("events", podNames[idx]))
    /\ \/ /\ hardFail' = hardFail \cup {"events"}
          /\ allEvents' = allEvents
       \/ /\ \E items \in SeqsUpTo(EventUniverse(focus), MaxEventsPerCall) :
               /\ Len(allEvents) + Len(items) <= MaxEvents
               /\ allEvents' = allEvents \o GetEventsForObject(items)
          /\ hardFail' = hardFail
    /\ pc' = IF idx = Len(podNames) THEN "EvReturn" ELSE "EvPod"
    /\ idx' = IF idx = Len(podNames) THEN 0 ELSE idx + 1
    /\ UNCHANGED <<focus, result, podNames, ret, datasetGet, notFound,
                 stages>>

\* collectEvents: the events GetAllRelatedEvents returned are stored unless
\* it returned an error
collectEvents(res, events, err) ==
    IF err # NoErr THEN res ELSE [res EXCEPT !.Events = events]

\* GetAllRelatedEvents sorts the merged events and returns; collectEvents
\* stores them; Diagnose records a hint when collectEvents failed
EventsReturn ==
    /\ pc = "EvReturn"
    /\ result' = StageFailure(
                   collectEvents(result, SortByLastTimestamp(allEvents),
                                 GetAllRelatedEventsErr),
                   GetAllRelatedEventsErr, "events",
                   "Failed to collect events",
                   "Check RBAC permissions for event access")
    /\ allEvents' = <<>>
    /\ podNames' = <<>>
    /\ pc' = "Workload"
    /\ idx' = 1
    /\ stages' = Append(stages, "events")
    /\ UNCHANGED <<focus, calls, hardFail, ret, datasetGet, notFound>>

(* ------------------ stage 3: collectResourceStatus --------------------- *)
AfterGroup(k) == IF k = Len(roles) THEN "GetPVC" ELSE "Workload"

\* variant: a hard failure of the get is returned by Diagnose
GetWorkload_Fatal ==
    /\ pc = "Workload"
    /\ idx <= Len(roles)
    /\ calls' = Append(calls, Call("resources", roles[idx]))
    /\ \/ /\ MayFail(focus, roles[idx])
          /\ result' = result
          /\ hardFail' = hardFail
          /\ notFound' = notFound \cup {roles[idx]}
          /\ pc' = AfterGroup(idx)
          /\ idx' = IF idx = Len(roles) THEN 0 ELSE idx + 1
          /\ ret' = ret
       \/ /\ MayFail(focus, roles[idx])
          /\ result' = result
          /\ hardFail' = hardFail \cup {"resources"}
          /\ notFound' = notFound
          /\ pc' = "Done"
          /\ idx' = idx
          /\ ret' = [returned |-> TRUE, result |-> Nil,
                     err |-> <<"failed to collect resource status">>]
       \/ /\ \E obj \in Workloads(focus, roles[idx]) :
               result' = [result EXCEPT !.Resources[groupField[idx]] =
                            Some(PodGroupStatus(roles[idx], obj))]
          /\ hardFail' = hardFail
          /\ notFound' = notFound
          /\ pc' = "Pods"
          /\ idx' = idx
          /\ ret' = ret
    /\ UNCHANGED <<focus, allEvents, podNames, datasetGet, stages>>

\* GetStatefulSet / GetDaemonSet of <name>-<role>; the error of the wrapper
\* is discarded, so not-found and a hard failure both leave the group nil
GetWorkload ==
    /\ pc = "Workload"
    /\ idx <= Len(roles)
    /\ calls' = Append(calls, Call("resources", roles[idx]))
    /\ \/ /\ MayFail(focus, roles[idx])
          /\ result' = result
          /\ hardFail' = hardFail
          /\ notFound' = notFound \cup {roles[idx]}
          /\ pc' = AfterGroup(idx)
          /\ idx' = IF idx = Len(roles) THEN 0 ELSE idx + 1
       \/ /\ MayFail(focus, roles[idx])
          /\ result' = result
          /\ hardFail' = hardFail \cup {"resources"}
          /\ notFound' = notFound
          /\ pc' = AfterGroup(idx)
          /\ idx' = IF idx = Len(roles) THEN 0 ELSE idx + 1
       \/ /\ \E obj \in Workloads(focus, roles[idx]) :
               result' = [result EXCEPT !.Resources[groupField[idx]] =
                            Some(PodGroupStatus(roles[idx], obj))]
          /\ hardFail' = hardFail
          /\ notFound' = notFound
          /\ pc' = "Pods"
          /\ idx' = idx
    /\ UNCHANGED <<focus, allEvents, podNames, ret, datasetGet, stages>>

\* collectPodStatus of a resolved group: a failed pod list leaves both pod
\* lists empty
collectPodStatus ==
    /\ pc = "Pods"
    /\ calls' = Append(calls, Call("resources", <<roles[idx], "pods">>))
    /\ \/ /\ MayFail(focus, roles[idx])
          /\ result' = result
          /\ hardFail' = hardFail \cup {"resources"}
       \/ /\ \E pods \in PodLists(focus, roles[idx]) :
               result' = [result EXCEPT !.Resources[groupField[idx]] =
                            Some(BucketPods(@[1], roles[idx], pods, 1))]
          /\ hardFail' = hardFail
    /\ pc' = AfterGroup(idx)
    /\ idx' = IF idx = Len(roles) THEN 0 ELSE idx + 1
    /\ UNCHANGED <<focus, allEvents, podNames, ret, datasetGet, notFound,
                 stages>>

\* GetPVC of the claim named after the Dataset
GetPVC ==
    /\ pc = "GetPVC"
    /\ calls' = Append(calls, Call("resources", "pvc"))
    /\ \/ /\ MayFail(focus, "pvc")
          /\ result' = result
          /\ hardFail' = hardFail
          /\ notFound' = notFound \cup {"pvc"}
          /\ pc' = "ResourcesReturn"
       \/ /\ MayFail(focus, "pvc")
          /\ result' = result
          /\ hardFail' = hardFail \cup {"resources"}
          /\ notFound' = notFound
          /\ pc' = "ResourcesReturn"
       \/ /\ \E pvc \in Claims(focus) :
               /\ result' = [result EXCEPT
                               !.Resources.PVC = Some(PVCDiagnostic(pvc))]
               /\ pc' = IF pvc.volumeName # "" THEN "GetPV"
                        ELSE "ResourcesReturn"
          /\ hardFail' = hardFail
          /\ notFound' = notFound
    /\ UNCHANGED <<focus, idx, allEvents, podNames, ret, datasetGet, stages>>

\* GetPV of the volume the claim is bound to; the error is discarded and the
\* object returned with it is not nil
GetPV ==
    /\ pc = "GetPV"
    /\ calls' = Append(calls, Call("resources", "pv"))
    /\ \/ /\ MayFail(focus, "pvc")
          /\ result' = [result EXCEPT
                          !.Resources.PV = Some(PVDiagnostic(EmptyVolume))]
          /\ hardFail' = hardFail
          /\ notFound' = notFound \cup {"pv"}
       \/ /\ MayFail(focus, "pvc")
          /\ result' = [result EXCEPT
                          !.Resources.PV = Some(PVDiagnostic(EmptyVolume))]
          /\ hardFail' = hardFail \cup {"resources"}
          /\ notFound' = notFound
       \/ /\ \E pv \in {[name |-> "pv-demo", phase |-> "Bound"],
                        [name |-> "pv-demo", phase |-> "Released"]} :
               /\ focus # "pvc" => pv.phase = "Bound"
               /\ result' = [result EXCEPT
                               !.Resources.PV = Some(PVDiagnostic(pv))]
          /\ hardFail' = hardFail
          /\ notFound' = notFound
    /\ pc' = "ResourcesReturn"
    /\ UNCHANGED <<focus, idx, allEvents, podNames, ret, datasetGet, stages>>

\* collectResourceStatus returns; Diagnose records a hint when it failed
ResourcesReturn ==
    /\ pc = "ResourcesReturn"
    /\ result' = StageFailure(result, collectResourceStatusErr, "resources",
                   "Failed to collect resource status",
                   "Check RBAC permissions for pod/statefulset/daemonset access")
    /\ pc' = NextLogStep(result', 1)
    /\ idx' = 1
    /\ stages' = Append(stages, "resources")
    /\ UNCHANGED <<focus, allEvents, podNames, calls, hardFail, ret,
                 datasetGet, notFound>>

(* ----------------------- stage 4: collectLogs -------------------------- *)
StepIndex(step) == CHOOSE k \in 1..Len(LogSteps) : LogSteps[k] = step

\* GetPodLogs of the first ready master pod
LogMaster ==
    /\ pc = "LogMaster"
    /\ LET pod == result.Resources.Master[1].Pods[1].Name IN
       /\ calls' = Append(calls, Call("logs", pod))
       /\ \/ \E err \in LogErrors(focus, "master") :
               /\ result' = [result EXCEPT !.Logs.Master =
                               Some(MasterLogEntry(pod, EmptyText, err))]
               /\ hardFail' = hardFail \cup {"logs"}
          \/ \E logs \in LogTexts(focus, "master") :
               /\ result' = [result EXCEPT !.Logs.Master =
                               Some(MasterLogEntry(pod, logs, NoErr))]
               /\ hardFail' = hardFail
    /\ pc' = NextLogStep(result, StepIndex("LogMaster") + 1)
    /\ UNCHANGED <<focus, idx, allEvents, podNames, ret, datasetGet,
                 notFound, stages>>

\* variant: a failed fetch ends collectLogs
LogWorkerReady_StopOnError ==
    /\ pc = "LogWorkerReady"
    /\ LET pod == result.Resources.Workers[1].Pods[1].Name IN
       /\ calls' = Append(calls, Call("logs", pod))
       /\ \/ \E err \in LogErrors(focus, "worker") :
               /\ result' = [result EXCEPT !.Logs.Workers = Append(@,
                               GroupLogEntry(pod, containerName[2],
                                             EmptyText, err))]
               /\ hardFail' = hardFail \cup {"logs"}
               /\ pc' = "LogsReturn"
          \/ \E logs \in LogTexts(focus, "worker") :
               /\ result' = [result EXCEPT !.Logs.Workers = Append(@,
                               GroupLogEntry(pod, containerName[2],
                                             logs, NoErr))]
               /\ hardFail' = hardFail
               /\ pc' = NextLogStep(result, StepIndex("LogWorkerReady") + 1)
    /\ UNCHANGED <<focus, idx, allEvents, podNames, ret, datasetGet,
                 notFound, stages>>

\* GetPodLogs of the first ready worker pod
LogWorkerReady ==
    /\ pc = "LogWorkerReady"
    /\ LET pod == result.Resources.Workers[1].Pods[1].Name IN
       /\ calls' = Append(calls, Call("logs", pod))
       /\ \/ \E err \in LogErrors(focus, "worker") :
               /\ result' = [result EXCEPT !.Logs.Workers = Append(@,
                               GroupLogEntry(pod, containerName[2],
                                             EmptyText, err))]
               /\ hardFail' = hardFail \cup {"logs"}
          \/ \E logs \in LogTexts(focus, "worker") :
               /\ result' = [result EXCEPT !.Logs.Workers = Append(@,
                               GroupLogEntry(pod, containerName[2],
                                             logs, NoErr))]
               /\ hardFail' = hardFail
    /\ pc' = NextLogStep(result, StepIndex("LogWorkerReady") + 1)
    /\ UNCHANGED <<focus, idx, allEvents, podNames, ret, datasetGet,
                 notFound, stages>>

\* GetPodLogs of the first failing worker pod
LogWorkerFailing ==
    /\ pc = "LogWorkerFailing"
    /\ LET pod == result.Resources.Workers[1].FailingPods[1].Name IN
       /\ calls' = Append(calls, Call("logs", pod))
       /\ \/ \E err \in LogErrors(focus, "worker") :
               /\ result' = [result EXCEPT !.Logs.Workers = Append(@,
                               GroupLogEntry(pod, containerName[2],
                                             EmptyText, err))]
               /\ hardFail' = hardFail \cup {"logs"}
          \/ \E logs \in LogTexts(focus, "worker") :
               /\ result' = [result EXCEPT !.Logs.Workers = Append(@,
                               GroupLogEntry(pod, containerName[2],
                                             logs, NoErr))]
               /\ hardFail' = hardFail
    /\ pc' = NextLogStep(result, StepIndex("LogWorkerFailing") + 1)
    /\ UNCHANGED <<focus, idx, allEvents, podNames, ret, datasetGet,
                 notFound, stages>>

\* variant: the loop over the failing fuse pods has no cap
LogFuse_NoCap ==
    /\ pc = "LogFuse"
    /\ idx <= Len(result.Resources.Fuse[1].FailingPods)
    /\ LET pod == result.Resources.Fuse[1].FailingPods[idx].Name IN
       /\ calls' = Append(calls, Call("logs", pod))
       /\ \/ \E err \in LogErrors(focus, "fuse") :
               /\ result' = [result EXCEPT !.Logs.Fuse = Append(@,
                               GroupLogEntry(pod, containerName[3],
                                             EmptyText, err))]
               /\ hardFail' = hardFail \cup {"logs"}
          \/ \E logs \in LogTexts(focus, "fuse") :
               /\ result' = [result EXCEPT !.Logs.Fuse = Append(@,
                               GroupLogEntry(pod, containerName[3],
                                             logs, NoErr))]
               /\ hardFail' = hardFail
    /\ IF idx < Len(result.Resources.Fuse[1].FailingPods)
       THEN pc' = "LogFuse" /\ idx' = idx + 1
       ELSE pc' = "LogsReturn" /\ idx' = 0
    /\ UNCHANGED <<focus, allEvents, podNames, ret, datasetGet, notFound,
                 stages>>

\* one iteration of the loop over the failing fuse pods, which stops after
\* maxLogsPerGroup pods
LogFuse ==
    /\ pc = "LogFuse"
    /\ idx <= Len(result.Resources.Fuse[1].FailingPods)
    /\ idx <= maxLogsPerGroup
    /\ LET pod == result.Resources.Fuse[1].FailingPods[idx].Name IN
       /\ calls' = Append(calls, Call("logs", pod))
       /\ \/ \E err \in LogErrors(focus, "fuse") :
               /\ result' = [result EXCEPT !.Logs.Fuse = Append(@,
                               GroupLogEntry(pod, containerName[3],
                                             EmptyText, err))]
               /\ hardFail' = hardFail \cup {"logs"}
          \/ \E logs \in LogTexts(focus, "fuse") :
               /\ result' = [result EXCEPT !.Logs.Fuse = Append(@,
                               GroupLogEntry(pod, containerName[3],
                                             logs, NoErr))]
               /\ hardFail' = hardFail
    /\ IF idx < Len(result.Resources.Fuse[1].FailingPods)
          /\ idx < maxLogsPerGroup
       THEN pc' = "LogFuse" /\ idx' = idx + 1
       ELSE pc' = "LogsReturn" /\ idx' = 0
    /\ UNCHANGED <<focus, allEvents, podNames, ret, datasetGet, notFound,
                 stages>>

\* collectLogs returns; Diagnose records a hint when it failed
LogsReturn ==
    /\ pc = "LogsReturn"
    /\ result' = StageFailure(result, collectLogsErr, "logs",
                   "Failed to collect some logs",
                   "Check RBAC permissions for pod/log access")
    /\ pc' = "Analyze"
    /\ idx' = 0
    /\ stages' = Append(stages, "logs")
    /\ UNCHANGED <<focus, allEvents, podNames, calls, hardFail, ret,
                 datasetGet, notFound>>

(* ------------------------ analysis and verdict ------------------------- *)
\* variant: the analysis lists the events of the Dataset once more
Analyze_RelistEvents ==
    /\ pc = "Analyze"
    /\ calls' = Append(calls, Call("events", eventObjects[1]))
    /\ result' = analyzeAndGenerateHints(result)
    /\ pc' = "Verdict"
    /\ stages' = Append(stages, "analysis")
    /\ UNCHANGED <<focus, idx, allEvents, podNames, hardFail, ret,
                 datasetGet, notFound>>

\* analyzeAndGenerateHints runs on the collected result
Analyze ==
    /\ pc = "Analyze"
    /\ result' = analyzeAndGenerateHints(result)
    /\ pc' = "Verdict"
    /\ stages' = Append(stages, "analysis")
    /\ UNCHANGED <<focus, idx, allEvents, podNames, calls, hardFail, ret,
                 datasetGet, notFound>>

\* the verdict is stored and Diagnose returns (result, nil)
Verdict ==
    /\ pc = "Verdict"
    /\ result' = [result EXCEPT !.HealthStatus = determineHealthStatus(result)]
    /\ ret' = [returned |-> TRUE, result |-> Some(result'), err |-> NoErr]
    /\ pc' = "Done"
    /\ stages' = Append(stages, "verdict")
    /\ UNCHANGED <<focus, idx, allEvents, podNames, calls, hardFail,
                 datasetGet, notFound>>

Next ==
    \/ GetDatasetNotFound
    \/ GetDatasetError
    \/ GetDatasetOk
    \/ TryFindRuntime
    \/ EventsForObject
    \/ ListReleasePods
    \/ EventsForPod
    \/ EventsReturn
    \/ GetWorkload
    \/ collectPodStatus
    \/ GetPVC
    \/ GetPV
    \/ ResourcesReturn
    \/ LogMaster
    \/ LogWorkerReady
    \/ LogWorkerFailing
    \/ LogFuse
    \/ LogsReturn
    \/ Analyze
    \/ Verdict

Spec == Init /\ [][Next]_vars

(* -------------------- the analyzer on its own -------------------------- *)
\* largest replica count of a workload group handed to the analyzer
AnalyzeMaxReplicas == 3

\* the group statuses the collector can hand to the analyzer: any desired
\* count, all or all but one replica ready, no pod or one restarting pod
AnalyzeGroups(role) ==
    {Nil} \cup
    {Some(BucketPods(PodGroupStatus(role, obj), role, pods, 1)) :
       obj \in UNION {
         {IF role = "fuse"
          THEN [name |-> role, desiredNumberScheduled |-> d,
                numberReady |-> r, numberAvailable |-> r,
                numberUnavailable |-> d - r]
          ELSE [name |-> role, replicas |-> d, readyReplicas |-> r,
                availableReplicas |-> r] : r \in (d - 1)..d} :
         d \in 1..AnalyzeMaxReplicas},
       pods \in {<<>>, <<[ready |-> "True", restartCount |-> 5]>>}}

AnalyzeClaims ==
    {Nil} \cup {Some(PVCDiagnostic([name |-> "demo", phase |-> p,
                                    volumeName |-> ""])) :
                  p \in {"Bound", "Pending", "Lost"}}

\* a run that has finished collecting: any collected model, no hint yet
InitAnalyze ==
    /\ focus = "analysis"
    /\ pc = "Analyze"
    /\ idx = 0
    /\ \E yaml \in {MarshalYAML(cleanCRForDiagnosis(obj)) :
                      obj \in [metadata : {{"name", "namespace"}
                                             \cup VolatileMetadata},
                               message : {<<>>},
                               phase : {<<"Bound">>, <<"Pending">>,
                                        <<"Failed">>}]},
          events \in {<<>>} \cup
                     {<<EventInfo(t, 1)>> :
                        t \in {u \in EventTemplates : u.Type = "Warning"}},
          m \in AnalyzeGroups("master"), w \in AnalyzeGroups("worker"),
          f \in AnalyzeGroups("fuse"), c \in AnalyzeClaims :
         result = [EmptyResult EXCEPT
                     !.DatasetYAML = yaml,
                     !.Events = events,
                     !.Resources = [Master |-> m, Workers |-> w, Fuse |-> f,
                                    PVC |-> c, PV |-> Nil]]
    /\ allEvents = <<>>
    /\ podNames = <<>>
    /\ calls = <<>>
    /\ hardFail = {}
    /\ ret = NotReturned
    /\ datasetGet = "ok"
    /\ notFound = {}
    /\ stages = <<"snapshot", "events", "resources", "logs">>

NextAnalyze ==
    \/ Analyze
    \/ Verdict

SpecAnalyze == InitAnalyze /\ [][NextAnalyze]_vars

(* ============================ properties =============================== *)
Returned == ret.returned
ReturnedResult == ret.returned /\ ret.result # Nil
AllStages == <<"snapshot", "events", "resources", "logs", "analysis",
               "verdict">>
StageDone(s) == \E k \in 1..Len(stages) : stages[k] = s

HintsWith(hints, comp) ==
    {k \in 1..Len(hints) : hints[k].Component = comp}

\* C1: after a successful Diagnose the verdict is Unhealthy exactly when
\* some failure hint of the result has severity critical
C1_UnhealthyIffCritical ==
    ReturnedResult =>
      LET r == ret.result[1] IN
      (r.HealthStatus = "Unhealthy")
        <=> (\E k \in 1..Len(r.FailureHints) :
               r.FailureHints[k].Severity = "critical")

C1_Witness ==
    /\ ReturnedResult
    /\ ret.result[1].HealthStatus = "Unhealthy"
    /\ \E k \in 1..Len(ret.result[1].FailureHints) :
         ret.result[1].FailureHints[k].Severity = "critical"
    /\ \E k \in 1..Len(ret.result[1].FailureHints) :
         ret.result[1].FailureHints[k].Severity = "warning"

\* C2: a Dataset get that answers not-found ends the run at once with a
\* not-found error and a nil result; the Dataset get is the only gateway
\* call of the run and nothing was collected
C2_NotFoundAborts ==
    datasetGet = "notfound" =>
      /\ pc = "Done"
      /\ ret.returned
      /\ ret.result = Nil
      /\ Contains(ret.err, "not found")
      /\ calls = <<Call("snapshot", "GetDataset")>>
      /\ result = EmptyResult

C2_Witness ==
    datasetGet = "notfound" /\ ret.returned /\ Len(calls) = 1

\* C3: once the snapshot stage has succeeded the run cannot stop before the
\* verdict: every position short of the end has a next step and has not
\* returned, and the end is reached with all six stages done in order, a
\* non-nil result carrying a verdict, and a nil error
C3_NeverAbortsAfterSnapshot ==
    StageDone("snapshot") =>
      IF pc = "Done"
      THEN /\ stages = AllStages
           /\ ret.returned
           /\ ret.result # Nil
           /\ ret.err = NoErr
           /\ ret.result[1].HealthStatus \in {"Healthy", "Degraded",
                                              "Unhealthy"}
      ELSE /\ ~ret.returned
           /\ ENABLED Next

C3_Witness ==
    /\ pc = "Done"
    /\ stages = AllStages
    /\ {"events", "resources", "logs"} \subseteq hardFail
    /\ ret.result # Nil
    /\ ret.err = NoErr

\* C4 as stated: Diagnose returns an error only when the Dataset is not
\* found
C4_ErrorOnlyWhenNotFound ==
    (ret.returned /\ ret.err # NoErr) => datasetGet = "notfound"

\* C4 amended: Diagnose returns an error exactly when the Dataset get itself
\* fails, by not-found or otherwise, and then returns no result after that
\* single call; a run whose Dataset get succeeded returns a result and a nil
\* error whatever failed later
C4_ErrorOnlyFromDatasetGet ==
    ret.returned =>
      /\ (ret.err # NoErr) <=> (datasetGet \in {"notfound", "error"})
      /\ (ret.err # NoErr) => (ret.result = Nil /\ Len(calls) = 1)
      /\ (ret.err = NoErr) => (ret.result # Nil /\ datasetGet = "ok")

C4_Witness ==
    /\ ret.returned
    /\ ret.err = NoErr
    /\ ret.result # Nil
    /\ "snapshot" \in hardFail

\* C5: the events of a returned result are in descending order of
\* LastTimestamp, and so are the events stored by the event stage
C5_EventsSortedDescending ==
    /\ \A i \in 1..(Len(result.Events) - 1) :
         result.Events[i].LastTimestamp >= result.Events[i + 1].LastTimestamp
    /\ ReturnedResult =>
         \A i \in 1..(Len(ret.result[1].Events) - 1) :
           ret.result[1].Events[i].LastTimestamp
             >= ret.result[1].Events[i + 1].LastTimestamp

C5_Witness ==
    /\ ReturnedResult
    /\ Len(ret.result[1].Events) = MaxEvents
    /\ ret.result[1].Events[1].LastTimestamp
         > ret.result[1].Events[MaxEvents].LastTimestamp

\* C6 as stated: a failed gateway call of the event stage leaves a warning
\* hint of component "events" with the error text as evidence, and the
\* result holds no events
C6_EventFailureRecorded ==
    (StageDone("events") /\ "events" \in hardFail) =>
      /\ \E k \in 1..Len(result.FailureHints) :
           /\ result.FailureHints[k].Severity = "warning"
           /\ result.FailureHints[k].Component = "events"
           /\ result.FailureHints[k].Evidence # <<>>
      /\ result.Events = <<>>

\* C7 as stated: after the resource-status stage every resource whose get
\* answered not-found is absent from the result, there is no hint of
\* component "resources" unless a call of the stage failed hard, and
\* exactly one, a warning, when one did
C7_ResourceFailures ==
    StageDone("resources") =>
      /\ \A r \in notFound :
           result.Resources[CASE r = "master" -> "Master"
                              [] r = "worker" -> "Workers"
                              [] r = "fuse" -> "Fuse"
                              [] r = "pvc" -> "PVC"
                              [] r = "pv" -> "PV"] = Nil
      /\ Cardinality(HintsWith(result.FailureHints, "resources"))
           = IF "resources" \in hardFail THEN 1 ELSE 0
      /\ \A k \in HintsWith(result.FailureHints, "resources") :
           result.FailureHints[k].Severity = "warning"

LogEntries(res) ==
    res.Logs.Master \o res.Logs.Workers \o res.Logs.Fuse

\* C8: a failed log fetch shows only on its own entry: an entry with Error
\* set has empty Logs, some entry has Error set exactly when a fetch failed,
\* no hint of component "logs" exists, every fetch the pod lists call for
\* was made whatever failed before it, and the run returns its result
C8_LogFailureInline ==
    /\ \A k \in 1..Len(LogEntries(result)) :
         LogEntries(result)[k].Error # NoErr
           => LogEntries(result)[k].Logs = EmptyText
    /\ ("logs" \in hardFail)
         <=> (\E k \in 1..Len(LogEntries(result)) :
                LogEntries(result)[k].Error # NoErr)
    /\ HintsWith(result.FailureHints, "logs") = {}
    /\ StageDone("logs") =>
         LET r == result.Resources IN
         /\ Len(result.Logs.Master)
              = IF LogApplies(result, "LogMaster") THEN 1 ELSE 0
         /\ Len(result.Logs.Workers)
              = (IF LogApplies(result, "LogWorkerReady") THEN 1 ELSE 0)
                + (IF LogApplies(result, "LogWorkerFailing") THEN 1 ELSE 0)
         /\ Len(result.Logs.Fuse)
              = IF r.Fuse = Nil THEN 0
                ELSE IF Len(r.Fuse[1].FailingPods) < maxLogsPerGroup
                     THEN Len(r.Fuse[1].FailingPods) ELSE maxLogsPerGroup
    /\ (pc = "Done" /\ "logs" \in hardFail) =>
         (ret.result # Nil /\ ret.err = NoErr)

C8_Witness ==
    /\ pc = "Done"
    /\ ret.result # Nil
    /\ Len(ret.result[1].Logs.Workers) = 2
    /\ ret.result[1].Logs.Workers[1].Error # NoErr
    /\ ret.result[1].Logs.Workers[2].Error = NoErr
    /\ ret.result[1].Logs.Workers[2].Logs # EmptyText

GroupFindings(hints, k) ==
    {j \in 1..Len(hints) :
       hints[j].Component = roles[k] /\ hints[j].Issue[1] = groupIssue[k]}

Analyzed == StageDone("analysis")

Counts(res, k, ready, desired) ==
    /\ res.Resources[groupField[k]] # Nil
    /\ res.Resources[groupField[k]][1].Ready = ready
    /\ res.Resources[groupField[k]][1].Desired = desired

\* master 1/1, workers 1/2, fuse 2/3, claim Bound, Dataset Bound, no events
ScenarioB(res) ==
    /\ Counts(res, 1, 1, 1)
    /\ Counts(res, 2, 1, 2)
    /\ Counts(res, 3, 2, 3)
    /\ res.Resources.PVC # Nil
    /\ res.Resources.PVC[1].Phase = "Bound"
    /\ extractPhaseFromYAML(res.DatasetYAML) = <<"Bound">>
    /\ res.Events = <<>>

NoHighRestarts(res) ==
    \A k \in 1..Len(roles) :
      LET g == res.Resources[groupField[k]] IN
      g # Nil =>
        \A p \in 1..Len(g[1].Pods \o g[1].FailingPods) :
          (g[1].Pods \o g[1].FailingPods)[p].RestartCount <= restartThreshold

\* C9: after the analysis every resolved group that is not healthy has
\* exactly one group finding, critical for the master and warning for the
\* workers and the fuse, and a healthy or unresolved group has none; in
\* scenario B the group findings are one for the workers and one for the
\* fuse, no hint is critical, the verdict is Degraded, and unless a pod
\* restarts too often these two warnings are all the hints
C9_GroupFindings ==
    Analyzed =>
      /\ \A k \in 1..Len(roles) :
           LET g == result.Resources[groupField[k]]
               found == GroupFindings(result.FailureHints, k)
           IN /\ Cardinality(found)
                   = IF g # Nil /\ ~g[1].Healthy THEN 1 ELSE 0
              /\ \A j \in found :
                   result.FailureHints[j].Severity
                     = IF k = 1 THEN "critical" ELSE "warning"
      /\ ScenarioB(result) =>
           /\ GroupFindings(result.FailureHints, 1) = {}
           /\ Cardinality(GroupFindings(result.FailureHints, 2)) = 1
           /\ Cardinality(GroupFindings(result.FailureHints, 3)) = 1
           /\ \A j \in 1..Len(result.FailureHints) :
                result.FailureHints[j].Severity # "critical"
           /\ pc = "Done" => result.HealthStatus = "Degraded"
           /\ NoHighRestarts(result) =>
                /\ Len(result.FailureHints) = 2
                /\ result.FailureHints[1].Component = "worker"
                /\ result.FailureHints[1].Severity = "warning"
                /\ result.FailureHints[2].Component = "fuse"
                /\ result.FailureHints[2].Severity = "warning"

C9_Witness ==
    /\ pc = "Done"
    /\ ScenarioB(result)
    /\ NoHighRestarts(result)
    /\ Len(result.FailureHints) = 2
    /\ result.HealthStatus = "Degraded"

\* C10: whenever the claim resolved with a phase other than Bound, the
\* analysis leaves exactly one hint of component "pvc", critical and naming
\* that phase, and the verdict is Unhealthy whatever the groups report
C10_UnboundClaimIsCritical ==
    (Analyzed /\ result.Resources.PVC # Nil
       /\ result.Resources.PVC[1].Phase # "Bound") =>
      /\ Cardinality(HintsWith(result.FailureHints, "pvc")) = 1
      /\ \A j \in HintsWith(result.FailureHints, "pvc") :
           /\ result.FailureHints[j].Severity = "critical"
           /\ result.FailureHints[j].Issue
                = <<"PVC is not bound", result.Resources.PVC[1].Phase>>
      /\ pc = "Done" => result.HealthStatus = "Unhealthy"

C10_Witness ==
    /\ pc = "Done"
    /\ result.Resources.PVC # Nil
    /\ result.Resources.PVC[1].Phase = "Pending"
    /\ \A k \in 1..Len(roles) :
         /\ result.Resources[groupField[k]] # Nil
         /\ result.Resources[groupField[k]][1].Healthy
    /\ result.Events = <<>>
    /\ Len(result.FailureHints) = 1
    /\ result.HealthStatus = "Unhealthy"

(* ------------------ the analyzer rules on events and pods -------------- *)
\* most events, and most pods of the one resolved group, handed to the rules
MaxRuleEvents == 2
MaxRulePods == 2

\* a healthy one-replica workload object of a role
RuleWorkload(role) ==
    IF role = "fuse"
    THEN [name |-> role, desiredNumberScheduled |-> 1, numberReady |-> 1,
          numberAvailable |-> 1, numberUnavailable |-> 0]
    ELSE [name |-> role, replicas |-> 1, readyReplicas |-> 1,
          availableReplicas |-> 1]

\* a run that has finished collecting: one resolved group with its pods
\* bucketed by the collector, their restart counts on both sides of the
\* threshold; events of EventTemplates, a Normal-type event that carries
\* the scheduling message, and warnings whose message matches the mount
\* signature, all three signatures or none; no hint yet
InitRules ==
    /\ focus = "rules"
    /\ pc = "Analyze"
    /\ idx = 0
    /\ \E events \in
            SeqsUpTo({EventInfo(t, 1) :
                        t \in EventTemplates \cup
                          {[Type |-> "Normal", Reason |-> "Scheduled",
                            Message |-> <<"0/3", "nodes", "available",
                                          "Insufficient", "memory">>,
                            ObjectKind |-> "Pod"],
                           [Type |-> "Warning", Reason |-> "FailedMount",
                            Message |-> <<"MountVolume", ".SetUp", "failed">>,
                            ObjectKind |-> "Pod"],
                           [Type |-> "Warning", Reason |-> "Failed",
                            Message |-> <<"ErrImagePull", "Insufficient",
                                          "memory", "FailedMount">>,
                            ObjectKind |-> "DaemonSet"],
                           [Type |-> "Warning", Reason |-> "Unhealthy",
                            Message |-> <<"Readiness", "probe", "failed">>,
                            ObjectKind |-> "Pod"]}},
                     MaxRuleEvents),
          k \in 1..Len(roles),
          pods \in SeqsUpTo([ready : {"True", "False"},
                             restartCount : {2, 3, 4, 5}], MaxRulePods) :
         result = [EmptyResult EXCEPT
                     !.DatasetYAML = << <<"phase", ":", "Bound">> >>,
                     !.Events = events,
                     !.Resources[groupField[k]] =
                        Some(BucketPods(
                               PodGroupStatus(roles[k], RuleWorkload(roles[k])),
                               roles[k], pods, 1))]
    /\ allEvents = <<>>
    /\ podNames = <<>>
    /\ calls = <<>>
    /\ hardFail = {}
    /\ ret = NotReturned
    /\ datasetGet = "ok"
    /\ notFound = {}
    /\ stages = <<"snapshot", "events", "resources", "logs">>

SpecRules == InitRules /\ [][NextAnalyze]_vars

\* strings.Contains(message, "Insufficient memory")
ContainsInsufficientMemory(msg) ==
    \E k \in 1..(Len(msg) - 1) :
      msg[k] = "Insufficient" /\ msg[k + 1] = "memory"

\* the warning hints that cite an event by kind and message
EventWarnings(hints, event) ==
    {j \in 1..Len(hints) :
       /\ hints[j].Severity = "warning"
       /\ hints[j].Component = event.ObjectKind
       /\ hints[j].Evidence = event.Message}

\* the events of the given types equal to an event in kind and message
EventsLike(events, event, types) ==
    {i \in 1..Len(events) :
       /\ events[i].Type \in types
       /\ events[i].ObjectKind = event.ObjectKind
       /\ events[i].Message = event.Message}

\* C11 as stated: every event whose message contains "Insufficient memory",
\* whatever its type, has exactly one warning hint with its kind as
\* component and its message as evidence
C11_InsufficientEveryType ==
    Analyzed =>
      \A i \in 1..Len(result.Events) :
        ContainsInsufficientMemory(result.Events[i].Message) =>
          Cardinality(EventWarnings(result.FailureHints, result.Events[i]))
            = Cardinality(EventsLike(result.Events, result.Events[i],
                                     {"Warning", "Normal"}))

\* C11 amended: every Warning-type event whose message contains
\* "Insufficient memory" has exactly one warning hint with its kind as
\* component and its message as evidence; an event of another type has none
C11_InsufficientWarningEvent ==
    Analyzed =>
      \A i \in 1..Len(result.Events) :
        ContainsInsufficientMemory(result.Events[i].Message) =>
          Cardinality(EventWarnings(result.FailureHints, result.Events[i]))
            = Cardinality(EventsLike(result.Events, result.Events[i],
                                     {"Warning"}))

C11_Witness ==
    /\ pc = "Done"
    /\ Len(result.Events) = 2
    /\ result.Events[1].Type = "Normal"
    /\ ContainsInsufficientMemory(result.Events[1].Message)
    /\ result.Events[2].Type = "Warning"
    /\ ContainsInsufficientMemory(result.Events[2].Message)
    /\ Cardinality(EventWarnings(result.FailureHints, result.Events[2])) = 1
    /\ \A j \in EventWarnings(result.FailureHints, result.Events[2]) :
         result.FailureHints[j].Issue = <<"Resource insufficiency detected">>

\* the hints of a group that cite a pod by restart count and name
RestartFindings(hints, role, pod) ==
    {j \in 1..Len(hints) :
       /\ hints[j].Component = role
       /\ hints[j].Issue = <<"High restart count", pod.RestartCount, pod.Name>>}

GroupPods(res, k) ==
    IF res.Resources[groupField[k]] = Nil THEN <<>>
    ELSE res.Resources[groupField[k]][1].Pods
           \o res.Resources[groupField[k]][1].FailingPods

\* C12: after the analysis every pod in Pods or FailingPods of a resolved
\* group has exactly one hint citing its name and restart count when the
\* count is greater than 3 and none otherwise, and no other hint reports a
\* restart count
C12_RestartFindings ==
    Analyzed =>
      /\ \A k \in 1..Len(roles) :
           \A p \in 1..Len(GroupPods(result, k)) :
             Cardinality(RestartFindings(result.FailureHints, roles[k],
                                         GroupPods(result, k)[p]))
               = IF GroupPods(result, k)[p].RestartCount > 3 THEN 1 ELSE 0
      /\ \A j \in 1..Len(result.FailureHints) :
           result.FailureHints[j].Issue[1] = "High restart count" =>
             \E k \in 1..Len(roles) :
               \E p \in 1..Len(GroupPods(result, k)) :
                 j \in RestartFindings(result.FailureHints, roles[k],
                                       GroupPods(result, k)[p])

C12_Witness ==
    /\ pc = "Done"
    /\ \E k \in 1..Len(roles) :
         /\ result.Resources[groupField[k]] # Nil
         /\ Len(result.Resources[groupField[k]][1].Pods) = 1
         /\ result.Resources[groupField[k]][1].Pods[1].RestartCount = 2
         /\ Len(result.Resources[groupField[k]][1].FailingPods) = 1
         /\ result.Resources[groupField[k]][1].FailingPods[1].RestartCount = 5
         /\ Cardinality(RestartFindings(
                          result.FailureHints, roles[k],
                          result.Resources[groupField[k]][1].FailingPods[1]))
              = 1
         /\ Cardinality({j \in 1..Len(result.FailureHints) :
                           result.FailureHints[j].Issue[1]
                             = "High restart count"}) = 1

(* ------------------------ the verdict on its own ----------------------- *)
\* most hints of a result handed to determineHealthStatus
MaxVerdictHints == 2

\* a group is unresolved, healthy (1/1) or unhealthy (0/1)
VerdictGroups(role) ==
    {Nil} \cup
    {Some(PodGroupStatus(role, obj)) :
       obj \in {IF role = "fuse"
                THEN [name |-> role, desiredNumberScheduled |-> 1,
                      numberReady |-> r, numberAvailable |-> r,
                      numberUnavailable |-> 1 - r]
                ELSE [name |-> role, replicas |-> 1, readyReplicas |-> r,
                      availableReplicas |-> r] : r \in 0..1}}

\* determineHealthStatus is about to be applied to any result
InitVerdict ==
    /\ focus = "verdict"
    /\ pc = "Verdict"
    /\ idx = 0
    /\ \E hints \in
            SeqsUpTo({Hint(sev, "component", <<"issue">>, "suggestion", <<>>) :
                        sev \in {"critical", "warning", "info"}},
                     MaxVerdictHints),
          m \in VerdictGroups("master"),
          w \in VerdictGroups("worker"), f \in VerdictGroups("fuse"),
          c \in AnalyzeClaims :
         result = [EmptyResult EXCEPT
                     !.FailureHints = hints,
                     !.Resources = [Master |-> m, Workers |-> w, Fuse |-> f,
                                    PVC |-> c, PV |-> Nil]]
    /\ allEvents = <<>>
    /\ podNames = <<>>
    /\ calls = <<>>
    /\ hardFail = {}
    /\ ret = NotReturned
    /\ datasetGet = "ok"
    /\ notFound = {}
    /\ stages = <<"snapshot", "events", "resources", "logs", "analysis">>

SpecVerdict == InitVerdict /\ [][Verdict]_vars

SomeHint(res, sev) ==
    \E j \in 1..Len(res.FailureHints) : res.FailureHints[j].Severity = sev

\* C13: the verdict of every result is one of Healthy, Degraded and
\* Unhealthy; without a critical hint it is Degraded exactly when some hint
\* is a warning, some resolved group is unhealthy or the resolved claim is
\* not Bound, and Healthy otherwise
C13_VerdictTotal ==
    pc = "Done" =>
      /\ result.HealthStatus \in {"Healthy", "Degraded", "Unhealthy"}
      /\ ~SomeHint(result, "critical") =>
           result.HealthStatus
             = IF \/ SomeHint(result, "warning")
                  \/ \E k \in 1..Len(roles) :
                       /\ result.Resources[groupField[k]] # Nil
                       /\ result.Resources[groupField[k]][1].Ready
                            # result.Resources[groupField[k]][1].Desired
                  \/ /\ result.Resources.PVC # Nil
                     /\ result.Resources.PVC[1].Phase # "Bound"
               THEN "Degraded" ELSE "Healthy"

C13_Witness ==
    /\ pc = "Done"
    /\ ~SomeHint(result, "critical")
    /\ ~SomeHint(result, "warning")
    /\ SomeHint(result, "info")
    /\ result.Resources.PVC # Nil
    /\ result.Resources.PVC[1].Phase = "Pending"
    /\ \A k \in 1..Len(roles) :
         /\ result.Resources[groupField[k]] # Nil
         /\ result.Resources[groupField[k]][1].Healthy
    /\ result.HealthStatus = "Degraded"

(* --------------- the group statuses of collector and inspector --------- *)
\* DatasetInspector.getResourceStatus: the status built from a StatefulSet
InspectorStatefulSetStatus(sts) ==
    [Name |-> sts.name, Replicas |-> sts.replicas,
     ReadyReplicas |-> sts.readyReplicas,
     Healthy |-> (sts.readyReplicas = sts.replicas)]

\* DatasetInspector.getResourceStatus: the status built from a DaemonSet
InspectorDaemonSetStatus(ds) ==
    [Name |-> ds.name, DesiredScheduled |-> ds.desiredNumberScheduled,
     Ready |-> ds.numberReady, Available |-> ds.numberAvailable,
     Unavailable |-> ds.numberUnavailable,
     Healthy |-> (ds.numberReady = ds.desiredNumberScheduled)]

\* what the inspector stores for a role: nil when the get returned no object
InspectorStatuses(f, role) ==
    (IF MayFail(f, role) THEN {Nil} ELSE {}) \cup
    {Some(IF role = "fuse" THEN InspectorDaemonSetStatus(obj)
          ELSE InspectorStatefulSetStatus(obj)) :
       obj \in Workloads(f, role)}

\* the inspector resolves the three workload objects and returns
getResourceStatus ==
    /\ pc = "Inspect"
    /\ \E m \in InspectorStatuses(focus, "master"),
          w \in InspectorStatuses(focus, "worker"),
          f \in InspectorStatuses(focus, "fuse") :
         ret' = [returned |-> TRUE,
                 result |-> Some([MasterStatefulSet |-> m,
                                  WorkerStatefulSet |-> w,
                                  FuseDaemonSet |-> f]),
                 err |-> NoErr]
    /\ calls' = calls \o <<Call("inspect", "master"),
                           Call("inspect", "worker"),
                           Call("inspect", "fuse")>>
    /\ pc' = "Done"
    /\ UNCHANGED <<focus, idx, result, allEvents, podNames, hardFail,
                 datasetGet, notFound, stages>>

\* either the collector is about to resolve the groups of a run, or the
\* inspector is about to resolve them
InitGroups ==
    /\ focus \in {"master", "worker", "fuse", "failures"}
    /\ \/ pc = "Workload" /\ idx = 1
       \/ pc = "Inspect" /\ idx = 0
    /\ result = [EmptyResult EXCEPT
                   !.DatasetYAML = << <<"phase", ":", "Bound">> >>]
    /\ allEvents = <<>>
    /\ podNames = <<>>
    /\ calls = <<>>
    /\ hardFail = {}
    /\ ret = NotReturned
    /\ datasetGet = "ok"
    /\ notFound = {}
    /\ stages = <<"snapshot", "events">>

NextGroups ==
    \/ GetWorkload
    \/ collectPodStatus
    \/ getResourceStatus

SpecGroups == InitGroups /\ [][NextGroups]_vars

NamesOf(pods) == {pods[j].Name : j \in 1..Len(pods)}

\* C14: every group status the collector stored has Healthy exactly when
\* Ready equals Desired; its Pods hold only ready pods and its FailingPods
\* only pods that are not ready; the two lists together hold every listed
\* pod once; and every status the inspector returned has Healthy exactly
\* when its ready count equals its desired count
C14_GroupStatusInvariant ==
    /\ \A k \in 1..Len(roles) :
         LET g == result.Resources[groupField[k]] IN
         g # Nil =>
           /\ g[1].Healthy <=> (g[1].Ready = g[1].Desired)
           /\ \A j \in 1..Len(g[1].Pods) : g[1].Pods[j].Ready
           /\ \A j \in 1..Len(g[1].FailingPods) : ~g[1].FailingPods[j].Ready
           /\ NamesOf(g[1].Pods) \cap NamesOf(g[1].FailingPods) = {}
           /\ Cardinality(NamesOf(g[1].Pods)) = Len(g[1].Pods)
           /\ Cardinality(NamesOf(g[1].FailingPods)) = Len(g[1].FailingPods)
           /\ NamesOf(g[1].Pods) \cup NamesOf(g[1].FailingPods)
                = {PodNames(roles[k])[j] :
                     j \in 1..(Len(g[1].Pods) + Len(g[1].FailingPods))}
    /\ (pc = "Done" /\ ret.result # Nil) =>
         LET r == ret.result[1] IN
         /\ r.MasterStatefulSet # Nil =>
              (r.MasterStatefulSet[1].Healthy
                 <=> (r.MasterStatefulSet[1].ReadyReplicas
                        = r.MasterStatefulSet[1].Replicas))
         /\ r.WorkerStatefulSet # Nil =>
              (r.WorkerStatefulSet[1].Healthy
                 <=> (r.WorkerStatefulSet[1].ReadyReplicas
                        = r.WorkerStatefulSet[1].Replicas))
         /\ r.FuseDaemonSet # Nil =>
              (r.FuseDaemonSet[1].Healthy
                 <=> (r.FuseDaemonSet[1].Ready
                        = r.FuseDaemonSet[1].DesiredScheduled))

C14_Witness ==
    /\ pc = "GetPVC"
    /\ result.Resources.Workers # Nil
    /\ result.Resources.Workers[1].Ready > result.Resources.Workers[1].Desired
    /\ ~result.Resources.Workers[1].Healthy
    /\ Len(result.Resources.Workers[1].Pods) = 1
    /\ Len(result.Resources.Workers[1].FailingPods) = 2
    /\ result.Resources.Workers[1].Pods[1].Name = PodNames("worker")[2]

(* ------------------------ the context projection ----------------------- *)
\* most lines of a log text handed to ToContext
MaxLogLines == 2

\* strings.ToLower on the symbols of a line
ToLower(line) ==
    [i \in 1..Len(line) |->
       CASE line[i] = "PASSWORD" -> "password"
         [] line[i] = "Secret" -> "secret"
         [] line[i] = "Token" -> "token"
         [] line[i] = "API" -> "api"
         [] line[i] = "KEY" -> "key"
         [] OTHER -> line[i]]

\* strings.Contains(line, pattern): the pattern is a run of adjacent symbols
ContainsText(line, pattern) ==
    \E i \in 0..(Len(line) - Len(pattern)) :
      SubSeq(line, i + 1, i + Len(pattern)) = pattern

\* the patterns of normalizeLogs: password, secret, token, api_key, apikey
secretPatterns ==
    {<<"password">>, <<"secret">>, <<"token">>, <<"api", "_", "key">>,
     <<"api", "key">>}

redactionMarker == <<"[REDACTED]">>

\* variant: the line is matched without lowering it first
normalizeLine_CaseSensitive(line) ==
    IF \E p \in secretPatterns : ContainsText(line, p)
    THEN redactionMarker ELSE line

\* normalizeLogs lines 664-675: one line of the text
normalizeLine(line) ==
    IF \E p \in secretPatterns : ContainsText(ToLower(line), p)
    THEN redactionMarker ELSE line

\* variant: the matching lines are dropped instead of replaced
normalizeLogs_DropSecrets(logs) ==
    SelectSeq(logs, LAMBDA line : normalizeLine(line) = line)

\* normalizeLogs: split at newlines, replace the matching lines, join
normalizeLogs(logs) == [i \in 1..Len(logs) |-> normalizeLine(logs[i])]

\* fmt.Sprintf("%d/%d", ready, desired)
Ratio(group) ==
    IF group = Nil THEN <<>>
    ELSE <<group[1].Ready, "/", group[1].Desired>>

\* variant: every log entry gets a key, whatever its text
LogKeys_AllEntries(res) ==
    (IF res.Logs.Master # Nil THEN {<<"master">>} ELSE {})
    \cup {<<"worker", i - 1>> : i \in 1..Len(res.Logs.Workers)}
    \cup {<<"fuse", i - 1>> : i \in 1..Len(res.Logs.Fuse)}

\* ToContext lines 597-613: the keys of the log map; the key of a list
\* entry carries the entry's index, counted from 0
LogKeys(res) ==
    (IF res.Logs.Master # Nil /\ res.Logs.Master[1].Logs # EmptyText
     THEN {<<"master">>} ELSE {})
    \cup {<<"worker", i - 1>> : i \in {j \in 1..Len(res.Logs.Workers) :
                                        res.Logs.Workers[j].Logs # EmptyText}}
    \cup {<<"fuse", i - 1>> : i \in {j \in 1..Len(res.Logs.Fuse) :
                                      res.Logs.Fuse[j].Logs # EmptyText}}

LogsOfKey(res, key) ==
    IF key[1] = "master" THEN res.Logs.Master[1].Logs
    ELSE IF key[1] = "worker" THEN res.Logs.Workers[key[2] + 1].Logs
    ELSE res.Logs.Fuse[key[2] + 1].Logs

\* ToContext lines 558-618
ToContext(res) ==
    [Summary |->
       [DatasetName |-> res.DatasetName,
        Namespace |-> res.Namespace,
        DatasetPhase |-> extractPhaseFromYAML(res.DatasetYAML),
        RuntimeType |-> res.RuntimeType,
        HealthStatus |-> res.HealthStatus,
        MasterReady |-> Ratio(res.Resources.Master),
        WorkersReady |-> Ratio(res.Resources.Workers),
        FuseReady |-> Ratio(res.Resources.Fuse),
        PVCStatus |-> IF res.Resources.PVC = Nil THEN ""
                      ELSE res.Resources.PVC[1].Phase,
        ErrorCount |-> Len(res.FailureHints),
        WarningCount |-> Cardinality({i \in 1..Len(res.Events) :
                                        res.Events[i].Type = "Warning"})],
     DatasetYAML |-> res.DatasetYAML,
     RuntimeYAML |-> res.RuntimeYAML,
     Events |-> res.Events,
     Logs |-> [key \in LogKeys(res) |-> normalizeLogs(LogsOfKey(res, key))],
     FailureHints |-> res.FailureHints,
     CollectedAt |-> res.CollectedAt,
     Version |-> "1.0"]

\* the log texts a pod may have written, of at least one line: plain
\* lines, lines naming a secret in any case, a line that only resembles
\* one, and the empty line
ContextTexts ==
    SeqsUpTo({<<"INFO", "started">>,
              <<"db", "password", "=", "x">>,
              <<"PASSWORD">>,
              <<"my", "Secret">>,
              <<"Bearer", "Token", "abc">>,
              <<"token", "izer", "ready">>,
              <<"api", "_", "key", "=", "1">>,
              <<"API", "KEY">>,
              <<"api", " ", "key", "=", "1">>,
              <<"[REDACTED]">>,
              <<>>}, MaxLogLines) \ {<<>>}

\* the entries collectLogs can have stored for a role: the lists of up to
\* maxLogsPerGroup entries whose last entry carries the text and whose
\* earlier entries either all failed or all carry a plain text
ContextEntryLists(k, texts) ==
    {[j \in 1..n |->
        IF j = n
        THEN GroupLogEntry(PodNames(roles[k])[j], containerName[k], t, NoErr)
        ELSE IF captured
        THEN GroupLogEntry(PodNames(roles[k])[j], containerName[k],
                           << <<"INFO", "started">> >>, NoErr)
        ELSE GroupLogEntry(PodNames(roles[k])[j], containerName[k],
                           EmptyText, <<"failed to get log stream">>)] :
       n \in 1..maxLogsPerGroup, t \in texts, captured \in BOOLEAN}

\* the logs of a result: the part named by rich carries any text, the other
\* parts are absent or plain
ContextLogs(rich) ==
    {[Master |-> m, Workers |-> w, Fuse |-> f] :
       m \in IF rich = 1
             THEN {Some(MasterLogEntry(PodNames("master")[1], t, NoErr)) :
                     t \in ContextTexts}
             ELSE {Nil,
                   Some(MasterLogEntry(PodNames("master")[1], EmptyText,
                                       <<"failed to get log stream">>))},
       w \in IF rich = 2 THEN ContextEntryLists(2, ContextTexts)
             ELSE {<<>>} \cup ContextEntryLists(2, {<< <<"INFO", "started">> >>}),
       f \in IF rich = 3 THEN ContextEntryLists(3, ContextTexts)
             ELSE {<<>>}}

\* a finished run whose result is about to be projected twice
InitContext ==
    /\ focus = "context"
    /\ pc = "ToContext"
    /\ idx = 0
    /\ \E rich \in 1..Len(roles), at \in 1..MaxTime :
       \E logs \in ContextLogs(rich) :
         result = [EmptyResult EXCEPT
                     !.CollectedAt = at,
                     !.DatasetYAML = << <<"phase", ":", "Bound">> >>,
                     !.RuntimeType = runtimeTypes[1],
                     !.Events =
                        SortByLastTimestamp(
                          <<EventInfo(CHOOSE t \in EventTemplates :
                                        t.Type = "Normal", 1),
                            EventInfo(CHOOSE t \in EventTemplates :
                                        t.Reason = "FailedScheduling", 2)>>),
                     !.Resources.Master =
                        Some(PodGroupStatus("master", RuleWorkload("master"))),
                     !.Logs = logs,
                     !.FailureHints =
                        EventHints(EventInfo(CHOOSE t \in EventTemplates :
                                       t.Reason = "FailedScheduling", 2)),
                     !.HealthStatus = "Degraded"]
    /\ allEvents = <<>>
    /\ podNames = <<>>
    /\ calls = <<>>
    /\ hardFail = {}
    /\ ret = NotReturned
    /\ datasetGet = "ok"
    /\ notFound = {}
    /\ stages = AllStages

\* variant: the normalized master log is written back into the result
CallToContext_InPlace ==
    /\ pc \in {"ToContext", "ToContextAgain"}
    /\ ret' = [returned |-> TRUE, result |-> Some(ToContext(result)),
               err |-> NoErr]
    /\ result' = IF result.Logs.Master = Nil THEN result
                 ELSE [result EXCEPT !.Logs.Master[1].Logs = normalizeLogs(@)]
    /\ pc' = IF pc = "ToContext" THEN "ToContextAgain" ELSE "Done"
    /\ UNCHANGED <<focus, idx, allEvents, podNames, calls, hardFail,
                 datasetGet, notFound, stages>>

\* the caller projects the result; the second call projects it again
CallToContext ==
    /\ pc \in {"ToContext", "ToContextAgain"}
    /\ ret' = [returned |-> TRUE, result |-> Some(ToContext(result)),
               err |-> NoErr]
    /\ pc' = IF pc = "ToContext" THEN "ToContextAgain" ELSE "Done"
    /\ UNCHANGED <<focus, idx, result, allEvents, podNames, calls, hardFail,
                 datasetGet, notFound, stages>>

SpecContext == InitContext /\ [][CallToContext]_vars

\* C15: every call of ToContext leaves the result as it was and returns a
\* context of version "1.0" carrying the result's timestamp; the second call
\* returns the very context the first call returned; and normalizing the
\* log texts of a context again changes nothing
C15_ToContextIdempotent ==
    [][(pc \in {"ToContext", "ToContextAgain"}) =>
         /\ result' = result
         /\ ret'.result # Nil
         /\ ret'.result[1].Version = "1.0"
         /\ ret'.result[1].CollectedAt = result.CollectedAt
         /\ pc = "ToContextAgain" => ret'.result = ret.result
         /\ \A key \in DOMAIN ret'.result[1].Logs :
              normalizeLogs(ret'.result[1].Logs[key])
                = ret'.result[1].Logs[key]]_vars

C15_Witness ==
    /\ pc = "Done"
    /\ ret.result # Nil
    /\ ret.result[1] = ToContext(result)
    /\ ret.result[1].Summary.ErrorCount = 1
    /\ ret.result[1].Summary.WarningCount = 1
    /\ \E key \in DOMAIN ret.result[1].Logs :
         /\ ret.result[1].Logs[key] # LogsOfKey(result, key)
         /\ \E i \in 1..Len(ret.result[1].Logs[key]) :
              ret.result[1].Logs[key][i] = redactionMarker

\* the line contains one of the tokens, case-insensitively
HasToken(line, tokens) == \E p \in tokens : ContainsText(ToLower(line), p)

\* the context the last call of ToContext returned
Projected == pc # "ToContext" /\ ret.result # Nil

\* every line of the log map is free of the tokens, and stands for the
\* marker wherever the collected line contained one
RedactionTotal(tokens) ==
    Projected =>
      \A key \in DOMAIN ret.result[1].Logs :
        LET src == LogsOfKey(result, key)
            out == ret.result[1].Logs[key] IN
        /\ \A i \in 1..Len(out) : ~HasToken(out[i], tokens)
        /\ \A i \in 1..Len(src) :
             HasToken(src[i], tokens) =>
               i <= Len(out) /\ out[i] = redactionMarker

\* C16 as stated: in the log map produced by ToContext no line survives that
\* contains, case-insensitively, password, secret, token or "api key"; every
\* such line is replaced wholesale by the redaction marker
C16_RedactionTotalSpecTokens ==
    RedactionTotal({<<"password">>, <<"secret">>, <<"token">>,
                    <<"api", " ", "key">>})

\* C16 amended: in the log map produced by ToContext no line survives that
\* contains, case-insensitively, password, secret, token, api_key or apikey;
\* every such line is replaced wholesale by the redaction marker
C16_RedactionTotal == RedactionTotal(secretPatterns)

C16_Witness ==
    /\ Projected
    /\ \E key \in DOMAIN ret.result[1].Logs :
         \E i \in 1..Len(LogsOfKey(result, key)) :
           LET line == LogsOfKey(result, key)[i] IN
           /\ HasToken(line, secretPatterns)
           /\ ToLower(line) # line
           /\ ret.result[1].Logs[key][i] = redactionMarker

\* C17: normalizeLogs keeps the number and order of the lines: the text of
\* every key of the log map has as many lines as the collected text, every
\* line without a secret-indicating token stands unchanged at its position,
\* and every other line is the marker
C17_RedactionPrecise ==
    Projected =>
      \A key \in DOMAIN ret.result[1].Logs :
        LET src == LogsOfKey(result, key)
            out == ret.result[1].Logs[key] IN
        /\ Len(out) = Len(src)
        /\ \A i \in 1..Len(src) :
             IF HasToken(src[i], secretPatterns)
             THEN out[i] = redactionMarker
             ELSE out[i] = src[i]

C17_Witness ==
    /\ Projected
    /\ \E key \in DOMAIN ret.result[1].Logs :
         LET src == LogsOfKey(result, key)
             out == ret.result[1].Logs[key] IN
         /\ Len(src) = MaxLogLines
         /\ HasToken(src[1], secretPatterns)
         /\ out[1] = redactionMarker
         /\ ~HasToken(src[2], secretPatterns)
         /\ src[2] \notin {<<>>, redactionMarker}
         /\ out[2] = src[2]

(* ----------------------------- mock mode ------------------------------- *)
\* generateMockDatasetYAML: the lines that name the dataset and its phase
generateMockDatasetYAML(name, namespace) ==
    << <<"kind", ":", "Dataset">>,
       <<"name", ":", name>>,
       <<"namespace", ":", namespace>>,
       <<"phase", ":", "Bound">> >>

\* generateMockRuntimeYAML
generateMockRuntimeYAML(name, namespace) ==
    << <<"kind", ":", "AlluxioRuntime">>,
       <<"name", ":", name>>,
       <<"namespace", ":", namespace>>,
       <<"workerPhase", ":", "PartialReady">> >>

\* generateMockEvents: the seven events in the order of the literal; the
\* timestamps are minutes relative to now
generateMockEvents(datasetName, now) ==
    LET MockEvent(type, reason, message, first, last, kind, object) ==
            [Type |-> type, Reason |-> reason, Message |-> message,
             FirstTimestamp |-> first, LastTimestamp |-> last,
             ObjectKind |-> kind, ObjectName |-> object]
    IN
    << MockEvent("Warning", "FailedScheduling",
                 <<"0/5", "nodes", "are", "available", "Insufficient",
                   "memory">>,
                 now - 30, now - 5, "Pod", <<datasetName, "fuse", "x7k2p">>),
       MockEvent("Warning", "Unhealthy",
                 <<"Readiness", "probe", "failed", "master", "connection",
                   "timeout">>,
                 now - 25, now - 3, "Pod", <<datasetName, "worker", 1>>),
       MockEvent("Warning", "FailedMount",
                 <<"MountVolume.SetUp", "failed", "DeadlineExceeded">>,
                 now - 20, now - 10, "Pod", <<datasetName, "fuse", "abc12">>),
       MockEvent("Normal", "Pulled",
                 <<"Successfully", "pulled", "image">>,
                 now - 45, now - 45, "Pod", <<datasetName, "master", 0>>),
       MockEvent("Normal", "Started",
                 <<"Started", "container", "alluxio-master">>,
                 now - 44, now - 44, "Pod", <<datasetName, "master", 0>>),
       MockEvent("Normal", "Created",
                 <<"Created", "pod", datasetName, "worker", 0>>,
                 now - 43, now - 43, "StatefulSet", <<datasetName, "worker">>),
       MockEvent("Warning", "Evicted",
                 <<"Pod", "was", "evicted", "memory", "pressure">>,
                 now - 15, now - 15, "Pod", <<datasetName, "worker", 1>>) >>

\* generateMockResources
generateMockResources(datasetName) ==
    LET MockPod(name, ready, restarts) ==
            [Name |-> name, Ready |-> ready, RestartCount |-> restarts]
        MockGroup(name, kind, desired, ready, unavailable, healthy, pods, failing) ==
            [Name |-> name, Kind |-> kind, Desired |-> desired, Ready |-> ready,
             Available |-> ready, Unavailable |-> unavailable, Healthy |-> healthy,
             Pods |-> pods, FailingPods |-> failing]
    IN
    [Master |->
       Some(MockGroup(<<datasetName, "master">>, "StatefulSet", 1, 1, 0, TRUE,
                      <<MockPod(<<datasetName, "master", 0>>, TRUE, 0)>>,
                      <<>>)),
     Workers |->
       Some(MockGroup(<<datasetName, "worker">>, "StatefulSet", 2, 1, 1, FALSE,
                      <<MockPod(<<datasetName, "worker", 0>>, TRUE, 1)>>,
                      <<MockPod(<<datasetName, "worker", 1>>, FALSE, 3)>>)),
     Fuse |->
       Some(MockGroup(<<datasetName, "fuse">>, "DaemonSet", 3, 2, 1, FALSE,
                      <<MockPod(<<datasetName, "fuse", "abc12">>, TRUE, 0),
                        MockPod(<<datasetName, "fuse", "def34">>, TRUE, 0)>>,
                      <<MockPod(<<datasetName, "fuse", "x7k2p">>, FALSE,
                                0)>>)),
     PVC |-> Some([Name |-> datasetName, Phase |-> "Bound",
                   VolumeName |-> datasetName]),
     PV |-> Some([Name |-> datasetName, Phase |-> "Bound"])]

\* generateMockLogs: the first, a middle and the last line of each text
generateMockLogs(datasetName) ==
    LET MockLogEntry(pod, container, truncated, logs) ==
            [PodName |-> pod, ContainerName |-> container, Logs |-> logs,
             TailLines |-> defaultTailLines, Truncated |-> truncated,
             Error |-> NoErr]
    IN
    [Master |->
       Some(MockLogEntry(<<datasetName, "master", 0>>, "alluxio-master", TRUE,
              << <<"INFO", "AlluxioMaster", "Starting", "Alluxio", "master">>,
                 <<"WARN", "DefaultBlockMaster", "No", "heartbeat", "from",
                   datasetName, "worker", 1>>,
                 <<"INFO", "DefaultBlockMaster", "Cluster", "status">> >>)),
     Workers |->
       << MockLogEntry(<<datasetName, "worker", 0>>, "alluxio-worker", TRUE,
              << <<"INFO", "AlluxioWorker", "Starting", "Alluxio", "worker">>,
                 <<"WARN", "BlockWorker", "High", "memory", "pressure">>,
                 <<"INFO", "BlockWorker", "Storage", "usage">> >>) >>,
     Fuse |->
       << MockLogEntry(<<datasetName, "fuse", "x7k2p">>, "alluxio-fuse", FALSE,
              << <<"INFO", "AlluxioFuse", "Starting", "Alluxio", "FUSE">>,
                 <<"ERROR", "AlluxioFuseFileSystem", "Failed", "to",
                   "connect", "to", "master">>,
                 <<"ERROR", "AlluxioFuse", "Cause", "Unable", "to", "reach",
                   "master">> >>) >>]

\* generateMockFailureHints
generateMockFailureHints ==
    << Hint("critical", "fuse", <<"Fuse pod unschedulable on node-3">>,
            "Add toleration for taint or remove taint from node",
            <<"0/5", "nodes", "are", "available", "taint">>),
       Hint("critical", "worker",
            <<"Worker pod pending due to insufficient memory">>,
            "Reduce worker memory request or add nodes with more memory",
            <<"0/5", "nodes", "are", "available", "Insufficient", "memory">>),
       Hint("warning", "worker", <<"Workers not healthy: 1/2 ready">>,
            "Check worker pod logs and node resources", <<>>),
       Hint("warning", "fuse", <<"Fuse not healthy: 2/3 ready">>,
            "Check fuse pod logs and node selectors/tolerations", <<>>),
       Hint("warning", "fuse", <<"FUSE mount failure detected">>,
            "Check master connectivity and fuse container logs",
            <<"MountVolume.SetUp", "failed", "DeadlineExceeded">>),
       Hint("info", "worker",
            <<"High restart count (%d) for pod %s", 3,
              <<"demo-data", "worker", 1>> >>,
            "Check pod logs for crash reasons", <<>>) >>

\* convertLogsToMap: the texts of the non-empty entries, as they are
convertLogsToMap(logs) ==
    LET res == [Logs |-> logs] IN
    [key \in LogKeys(res) |-> LogsOfKey(res, key)]

\* MockDiagnosticResult, with the instant its time.Now() answered
MockDiagnosticResult(datasetName, namespace, now) ==
    [CollectedAt |-> now,
     DatasetName |-> datasetName,
     Namespace |-> namespace,
     DatasetYAML |-> generateMockDatasetYAML(datasetName, namespace),
     RuntimeYAML |-> generateMockRuntimeYAML(datasetName, namespace),
     RuntimeType |-> "alluxioruntimes",
     Events |-> generateMockEvents(datasetName, now),
     Resources |-> generateMockResources(datasetName),
     Logs |-> generateMockLogs(datasetName),
     FailureHints |-> generateMockFailureHints,
     HealthStatus |-> "Degraded"]

\* MockDiagnosticContext builds a result of its own and copies from it
MockDiagnosticContext(datasetName, namespace, now) ==
    LET res == MockDiagnosticResult(datasetName, namespace, now) IN
    [Summary |->
       [DatasetName |-> datasetName,
        Namespace |-> namespace,
        DatasetPhase |-> "Bound",
        RuntimeType |-> "alluxioruntimes",
        HealthStatus |-> "Degraded",
        MasterReady |-> <<1, "/", 1>>,
        WorkersReady |-> <<1, "/", 2>>,
        FuseReady |-> <<2, "/", 3>>,
        PVCStatus |-> "Bound",
        ErrorCount |-> 3,
        WarningCount |-> 5],
     DatasetYAML |-> res.DatasetYAML,
     RuntimeYAML |-> res.RuntimeYAML,
     Events |-> res.Events,
     Logs |-> convertLogsToMap(res.Logs),
     FailureHints |-> res.FailureHints,
     CollectedAt |-> res.CollectedAt,
     Version |-> "1.0"]

\* runDiagnoseDataset with --mock, before its two calls
InitMock ==
    /\ focus = "mock"
    /\ pc = "MockResult"
    /\ idx = 0
    /\ result = EmptyResult
    /\ allEvents = <<>>
    /\ podNames = <<>>
    /\ calls = <<>>
    /\ hardFail = {}
    /\ ret = NotReturned
    /\ datasetGet = "ok"
    /\ notFound = {}
    /\ stages = <<>>

\* result = mock.MockDiagnosticResult(name, opts.namespace), for the
\* arguments of the command and the instant time.Now() answers
CallMockDiagnosticResult ==
    /\ pc = "MockResult"
    /\ \E name \in {"demo", "demo-data", "my-dataset", "imagenet"},
          namespace \in {"default", "production", "fluid-system"},
          now \in 0..MaxTime :
         result' = MockDiagnosticResult(name, namespace, now)
    /\ pc' = "MockContext"
    /\ UNCHANGED <<focus, idx, allEvents, podNames, calls, hardFail, ret,
                 datasetGet, notFound, stages>>

\* ctx = mock.MockDiagnosticContext(name, opts.namespace), at the same
\* instant or later
CallMockDiagnosticContext ==
    /\ pc = "MockContext"
    /\ \E now \in result.CollectedAt..MaxTime :
         ret' = [returned |-> TRUE,
                 result |-> Some(MockDiagnosticContext(result.DatasetName,
                                                       result.Namespace, now)),
                 err |-> NoErr]
    /\ pc' = "Done"
    /\ UNCHANGED <<focus, idx, result, allEvents, podNames, calls, hardFail,
                 datasetGet, notFound, stages>>

NextMock == CallMockDiagnosticResult \/ CallMockDiagnosticContext

SpecMock == InitMock /\ [][NextMock]_vars

\* C18: the result and the context returned in mock mode obey the rules of
\* a live run: HealthStatus is Unhealthy iff some hint is critical, the
\* events are sorted by LastTimestamp descending, ErrorCount is the number
\* of hints, WarningCount is the number of Warning-type events, and the log
\* map holds the normalized log texts
C18_MockObeysLiveRules ==
    (focus = "mock" /\ pc = "Done") =>
      LET ctx == ret.result[1]
          VerdictRule(status, hints) ==
              status = "Unhealthy" <=> HasSeverity(hints, "critical")
          SortedDescending(events) ==
              \A i, j \in 1..Len(events) :
                i < j => events[i].LastTimestamp >= events[j].LastTimestamp
          CountRule(summary, hints, events) ==
              /\ summary.ErrorCount = Len(hints)
              /\ summary.WarningCount =
                   Cardinality({i \in 1..Len(events) : events[i].Type = "Warning"})
          LogMapRule(logMap, res) ==
              /\ DOMAIN logMap = LogKeys(res)
              /\ \A key \in DOMAIN logMap :
                   logMap[key] = normalizeLogs(LogsOfKey(res, key))
      IN
      /\ VerdictRule(result.HealthStatus, result.FailureHints)
      /\ VerdictRule(ctx.Summary.HealthStatus, ctx.FailureHints)
      /\ SortedDescending(result.Events)
      /\ SortedDescending(ctx.Events)
      /\ CountRule(ctx.Summary, ctx.FailureHints, ctx.Events)
      /\ LogMapRule(ctx.Logs, result)

\* C19: the stages finish in the order snapshot, events, resources, logs,
\* analysis, verdict; every step issues at most one gateway call, and that
\* call belongs to the stage being executed, so the calls of a stage all
\* precede the calls of the next and none is issued once the log stage has
\* finished
C19_CallsInStageOrder ==
    [][LET StageRank(stage) ==
             CHOOSE k \in 1..Len(AllStages) : AllStages[k] = stage
           CurrentStage == AllStages[Len(stages) + 1]
           issued == calls'[Len(calls')]
       IN
       /\ stages' = SubSeq(AllStages, 1, Len(stages'))
       /\ Len(stages') \in {Len(stages), Len(stages) + 1}
       /\ calls' # calls =>
            /\ Len(stages) < Len(AllStages)
            /\ calls' = Append(calls, issued)
            /\ issued.stage = CurrentStage
            /\ \A k \in 1..Len(calls) :
                 StageRank(calls[k].stage) <= StageRank(issued.stage)]_vars

C19_Witness ==
    /\ ReturnedResult
    /\ stages = AllStages
    /\ \A s \in {"snapshot", "events", "resources", "logs"} :
         \E k \in 1..Len(calls) : calls[k].stage = s
    /\ calls[Len(calls)].stage = "logs"

\* the probes of a run: the snapshot calls after the Dataset get
Probes == {k \in 2..Len(calls) : calls[k].stage = "snapshot"}

\* C20: the probes go through the kinds in the order of runtimeTypes; a
\* probe that succeeds is the last one; once the snapshot stage is done the
\* runtime of the result is the kind of the probe that succeeded, or, when
\* all seven probes failed, RuntimeType and RuntimeYAML are empty and the
\* run has gone on without an error
C20_FirstRuntimeInOrder ==
    /\ \A k \in Probes :
         /\ k - 1 <= Len(runtimeTypes)
         /\ calls[k].call = runtimeTypes[k - 1]
         /\ calls[k].found => \A j \in Probes : j <= k
    /\ StageDone("snapshot") =>
         IF \E k \in Probes : calls[k].found
         THEN \E k \in Probes :
                /\ calls[k].found
                /\ result.RuntimeType = calls[k].call
                /\ result.RuntimeYAML # <<>>
         ELSE /\ Cardinality(Probes) = Len(runtimeTypes)
              /\ result.RuntimeType = ""
              /\ result.RuntimeYAML = <<>>
              /\ ret.err = NoErr
    /\ (Returned /\ ret.err # NoErr) => Probes = {}

C20_Witness ==
    /\ ReturnedResult
    /\ result.RuntimeType = runtimeTypes[3]
    /\ Cardinality(Probes) = 3
    /\ "snapshot" \in hardFail

\* TryFindRuntime has just returned to collectCRSnapshots
ProbeReturned ==
    /\ Len(stages) = 1
    /\ calls[Len(calls)].stage = "snapshot"

\* what the probe leaves when every kind it missed answered not-found: the
\* runtime fields of the kind it found, no error and no hint
NotFoundOutcome ==
    <<[EmptyResult EXCEPT !.DatasetYAML = result.DatasetYAML,
                          !.RuntimeType = result.RuntimeType,
                          !.RuntimeYAML = result.RuntimeYAML],
      NotReturned>>

\* C21 as stated: when the gateway call for some kind failed other than by
\* not-found, the outcome of the probe differs from the outcome it has when
\* the kinds it missed are not found
C21_TransportFailureDistinguishable ==
    (ProbeReturned /\ "snapshot" \in hardFail) =>
      <<result, ret>> # NotFoundOutcome

\* the hints of one signature family that cite an event by kind and message
FamilyFindings(hints, event, issue) ==
    {j \in 1..Len(hints) :
       /\ hints[j].Issue = issue
       /\ hints[j].Component = event.ObjectKind
       /\ hints[j].Evidence = event.Message}

\* C22: for every event and every signature family, the findings of the
\* family that cite the event are as many as the Warning-type events of its
\* kind and message when the message matches the family, and none
\* otherwise; each has the severity of its family; and every event finding
\* cites some Warning-type event
C22_EventSignaturesIndependent ==
    Analyzed =>
      LET families ==
            {[phrases |-> {"ImagePullBackOff", "ErrImagePull"},
              severity |-> "critical",
              issue |-> <<"Image pull failure detected">>],
             [phrases |-> {"Insufficient"},
              severity |-> "warning",
              issue |-> <<"Resource insufficiency detected">>],
             [phrases |-> {"FailedMount", "MountVolume"},
              severity |-> "critical",
              issue |-> <<"Volume mount failure detected">>]}
          hints == result.FailureHints
          events == result.Events
          Matches(e, f) == \E p \in f.phrases : Contains(e.Message, p)
      IN
      /\ \A i \in 1..Len(events), f \in families :
           /\ Cardinality(FamilyFindings(hints, events[i], f.issue))
                = IF Matches(events[i], f)
                  THEN Cardinality(EventsLike(events, events[i], {"Warning"}))
                  ELSE 0
           /\ \A j \in FamilyFindings(hints, events[i], f.issue) :
                hints[j].Severity = f.severity
      /\ \A j \in 1..Len(hints) :
           hints[j].Issue \in {f.issue : f \in families} =>
             \E i \in 1..Len(events) :
               /\ events[i].Type = "Warning"
               /\ hints[j].Component = events[i].ObjectKind
               /\ hints[j].Evidence = events[i].Message

C22_Witness ==
    /\ pc = "Done"
    /\ Len(result.Events) = 2
    /\ result.Events[1].Reason = "Unhealthy"
    /\ Contains(result.Events[2].Message, "ErrImagePull")
    /\ Contains(result.Events[2].Message, "Insufficient")
    /\ Contains(result.Events[2].Message, "FailedMount")
    /\ Cardinality({j \in 1..Len(result.FailureHints) :
                      result.FailureHints[j].Evidence
                        = result.Events[2].Message}) = 3
    /\ \A j \in 1..Len(result.FailureHints) :
         result.FailureHints[j].Evidence # result.Events[1].Message

(* ----------------------- the Dataset phase on its own ------------------ *)
\* the Dataset objects the gateway can return: every phase of a Dataset or
\* none, and no status condition, one with a plain message or one whose
\* message quotes a phase
PhaseDatasets ==
    [metadata : {{"name", "namespace"} \cup VolatileMetadata},
     message : {<<>>,
                <<"The", "ddc", "runtime", "is", "ready.">>,
                <<"Dataset", "phase", ":", "NotBound">>},
     phase : {<<"Bound">>, <<"Pending">>, <<"Failed">>, <<"NotBound">>,
              <<"Updating">>, <<"Migrating">>, <<>>}]

\* a run that has finished collecting: the snapshot of any Dataset, any
\* claim, no hint yet
InitPhase ==
    /\ focus = "phase"
    /\ pc = "Analyze"
    /\ idx = 0
    /\ \E obj \in PhaseDatasets, c \in AnalyzeClaims :
         result = [EmptyResult EXCEPT
                     !.DatasetYAML = MarshalYAML(cleanCRForDiagnosis(obj)),
                     !.Resources.PVC = c]
    /\ allEvents = <<>>
    /\ podNames = <<>>
    /\ calls = <<>>
    /\ hardFail = {}
    /\ ret = NotReturned
    /\ datasetGet = "ok"
    /\ notFound = {}
    /\ stages = <<"snapshot", "events", "resources", "logs">>

SpecPhase == InitPhase /\ [][NextAnalyze]_vars

\* C23 as stated: for the Dataset whose snapshot the result holds, phase
\* Pending yields exactly one finding of component "dataset", a warning,
\* phase Failed exactly one, critical, and every other phase or no phase
\* yields none
C23_PhaseRule ==
    Analyzed =>
      \A obj \in PhaseDatasets :
        result.DatasetYAML = MarshalYAML(cleanCRForDiagnosis(obj)) =>
          LET found == HintsWith(result.FailureHints, "dataset") IN
          /\ Cardinality(found)
               = IF obj.phase \in {<<"Pending">>, <<"Failed">>} THEN 1 ELSE 0
          /\ \A j \in found :
               result.FailureHints[j].Severity
                 = IF obj.phase = <<"Pending">> THEN "warning" ELSE "critical"

\* C29 as stated: the phase the analyzer extracts and the DatasetPhase of
\* the context summary equal the status.phase of the Dataset whose snapshot
\* the result holds, or "Unknown" when it has none
C29_PhaseIsStatusPhase ==
    Analyzed =>
      \A obj \in PhaseDatasets :
        result.DatasetYAML = MarshalYAML(cleanCRForDiagnosis(obj)) =>
          LET phase == IF obj.phase = <<>> THEN <<"Unknown">> ELSE obj.phase
          IN
          /\ extractPhaseFromYAML(result.DatasetYAML) = phase
          /\ ToContext(result).Summary.DatasetPhase = phase

\* C24 as stated: every group status of the result has Ready, Available and
\* Unavailable at least 0 and Ready at most Desired
C24_GroupCountsInRange ==
    \A k \in 1..Len(roles) :
      LET g == result.Resources[groupField[k]] IN
      g # Nil =>
        /\ g[1].Ready >= 0
        /\ g[1].Available >= 0
        /\ g[1].Unavailable >= 0
        /\ g[1].Ready <= g[1].Desired

\* the pods whose log was fetched, in the order of the fetches
FetchedLogs ==
    LET logCalls == SelectSeq(calls, LAMBDA c : c.stage = "logs")
    IN [k \in 1..Len(logCalls) |-> logCalls[k].call]

\* the names of the first n pods of a list, or of all when it has fewer
FirstNames(pods, n) ==
    [k \in 1..(IF Len(pods) < n THEN Len(pods) ELSE n) |-> pods[k].Name]

Captured(entries) == {j \in 1..Len(entries) : entries[j].Logs # EmptyText}

\* C26 as stated: the log map has as many keys as there are entries with a
\* text, the master text is keyed by the role name, and a worker or fuse
\* list with a single captured entry is keyed by the role name alone
C26_KeysAsStated ==
    (pc # "ToContext" /\ ret.result # Nil) =>
      LET logs == ret.result[1].Logs
          m == result.Logs.Master
      IN /\ Cardinality(DOMAIN logs)
              = (IF m # Nil /\ m[1].Logs # EmptyText THEN 1 ELSE 0)
                + Cardinality(Captured(result.Logs.Workers))
                + Cardinality(Captured(result.Logs.Fuse))
         /\ (m # Nil /\ m[1].Logs # EmptyText) => <<"master">> \in DOMAIN logs
         /\ Cardinality(Captured(result.Logs.Workers)) = 1
              => <<"worker">> \in DOMAIN logs
         /\ Cardinality(Captured(result.Logs.Fuse)) = 1
              => <<"fuse">> \in DOMAIN logs

\* C26, amended: the log map has the key "master" exactly when the master
\* entry has a text, and for the worker and the fuse list the key made of
\* the role and the entry's position in its list, counted from 0, exactly
\* when that entry has a text, also when it is the only captured entry of
\* its role; it has no other key, and each key maps to the normalized text
C26_KeysByListIndex ==
    (pc # "ToContext" /\ ret.result # Nil) =>
      LET logs == ret.result[1].Logs
          m == result.Logs.Master
          list(role) == IF role = "worker" THEN result.Logs.Workers
                        ELSE result.Logs.Fuse
      IN /\ <<"master">> \in DOMAIN logs
              <=> (m # Nil /\ m[1].Logs # EmptyText)
         /\ <<"master">> \in DOMAIN logs
              => logs[<<"master">>] = normalizeLogs(m[1].Logs)
         /\ \A role \in {"worker", "fuse"} :
              \A j \in 1..Len(list(role)) :
                /\ <<role, j - 1>> \in DOMAIN logs <=> j \in Captured(list(role))
                /\ j \in Captured(list(role))
                     => logs[<<role, j - 1>>] = normalizeLogs(list(role)[j].Logs)
         /\ \A key \in DOMAIN logs :
              \/ key = <<"master">>
              \/ /\ Len(key) = 2
                 /\ key[1] \in {"worker", "fuse"}
                 /\ key[2] + 1 \in Captured(list(key[1]))

\* a projected result whose only captured worker entry is the second of its
\* list: it is keyed by its position, next to the master text
C26_Witness ==
    /\ pc = "Done"
    /\ ret.result # Nil
    /\ Len(result.Logs.Workers) = 2
    /\ Captured(result.Logs.Workers) = {2}
    /\ DOMAIN ret.result[1].Logs = {<<"worker", 1>>, <<"master">>}

\* C27: in every result Diagnose returns, the verdict is Healthy exactly
\* when no finding is critical or warning; and without such a finding every
\* resolved group is healthy and the resolved claim is Bound, so the
\* resource test of determineHealthStatus never decides for Degraded
C27_HealthChecksAgree ==
    (pc = "Done" /\ ReturnedResult) =>
      LET res == ret.result[1]
          clean == /\ ~HasSeverity(res.FailureHints, "critical")
                   /\ ~HasSeverity(res.FailureHints, "warning")
      IN /\ (res.HealthStatus = "Healthy") <=> clean
         /\ clean =>
              /\ \A k \in 1..Len(roles) :
                   res.Resources[groupField[k]] # Nil
                     => res.Resources[groupField[k]][1].Healthy
              /\ res.Resources.PVC # Nil
                   => res.Resources.PVC[1].Phase = "Bound"

\* a returned result in which no group and no claim resolved, with no
\* finding and the verdict Healthy
C27_Witness ==
    /\ pc = "Done"
    /\ ReturnedResult
    /\ \A k \in 1..Len(roles) : ret.result[1].Resources[groupField[k]] = Nil
    /\ ret.result[1].Resources.PVC = Nil
    /\ ret.result[1].FailureHints = <<>>
    /\ ret.result[1].HealthStatus = "Healthy"

(* ------------------- the order of the analyzer's hints ----------------- *)
\* the statuses of a group every rule can fire on: unresolved, or healthy or
\* with no replica ready, and with no pod or with a failing pod listed
\* before a ready one, both restarting
OrderGroups(role) ==
    {Nil} \cup
    {Some(BucketPods(PodGroupStatus(role, obj), role, pods, 1)) :
       obj \in {RuleWorkload(role),
                IF role = "fuse"
                THEN [name |-> role, desiredNumberScheduled |-> 1,
                      numberReady |-> 0, numberAvailable |-> 0,
                      numberUnavailable |-> 1]
                ELSE [name |-> role, replicas |-> 1, readyReplicas |-> 0,
                      availableReplicas |-> 0]},
       pods \in {<<>>, <<[ready |-> "False", restartCount |-> 5],
                        [ready |-> "True", restartCount |-> 5]>>}}

\* a run that has finished collecting: any phase the phase rule tells
\* apart, any groups of OrderGroups, any claim, and events that match
\* one signature, all three or, being of type Normal, none
InitOrder ==
    /\ focus = "order"
    /\ pc = "Analyze"
    /\ idx = 0
    /\ \E phase \in {<<"Bound">>, <<"Pending">>, <<"Failed">>},
          events \in
            SeqsUpTo({EventInfo(t, 1) :
                        t \in {CHOOSE u \in EventTemplates :
                                 u.Reason = "FailedScheduling",
                               [Type |-> "Normal", Reason |-> "Scheduled",
                                Message |-> <<"0/3", "nodes", "available",
                                              "Insufficient", "memory">>,
                                ObjectKind |-> "Pod"],
                               [Type |-> "Warning", Reason |-> "Failed",
                                Message |-> <<"ErrImagePull", "Insufficient",
                                              "memory", "FailedMount">>,
                                ObjectKind |-> "DaemonSet"]}},
                     MaxRuleEvents),
          m \in OrderGroups("master"), w \in OrderGroups("worker"),
          f \in OrderGroups("fuse"),
          c \in {x \in AnalyzeClaims : x = Nil \/ x[1].Phase # "Lost"} :
         result = [EmptyResult EXCEPT
                     !.DatasetYAML = <<Append(<<"phase", ":">>, phase[1])>>,
                     !.Events = events,
                     !.Resources = [Master |-> m, Workers |-> w, Fuse |-> f,
                                    PVC |-> c, PV |-> Nil]]
    /\ allEvents = <<>>
    /\ podNames = <<>>
    /\ calls = <<>>
    /\ hardFail = {}
    /\ ret = NotReturned
    /\ datasetGet = "ok"
    /\ notFound = {}
    /\ stages = <<"snapshot", "events", "resources", "logs">>

SpecOrder == InitOrder /\ [][NextAnalyze]_vars

C30_LogEntryComplete ==
    \A k \in 1..Len(LogEntries(result)) :
      LET entry == LogEntries(result)[k] IN
      /\ entry.PodName # <<>>
      /\ entry.ContainerName # ""
      /\ entry.TailLines = defaultTailLines
      /\ entry.Error # NoErr => entry.Logs = EmptyText
====
